---- MODULE Spec2Model ----
(***************************************************************************)
(* Model of the finance data normalisation and aggregation engine          *)
(* (src/src/utils/finance/*.ts) and of the chart components that build     *)
(* series from it.                                                         *)
(*                                                                         *)
(* Representation.                                                         *)
(*  - A JavaScript string is a sequence of one-character strings, so that  *)
(*    parsing, formatting and code-unit comparison are computed.           *)
(*  - A raw CSV cell is a record [absent, s]: absent = TRUE models a       *)
(*    missing column (undefined), otherwise s is the cell text.            *)
(*  - A number is an integer count of 1/AmountScale units that keeps a     *)
(*    bounded number of significant digits; sums and differences are       *)
(*    rounded to the nearest such value.                                   *)
(*  - A Date is its time value in minutes since 1970-01-01T00:00Z; local   *)
(*    calendar fields are read through the environment's offset tz.        *)
(*  - A plain JavaScript object used as a map is the sequence of its       *)
(*    [k, v] properties in creation order; ObjectKeys gives the order in   *)
(*    which the engine enumerates them.                                    *)
(***************************************************************************)
EXTENDS Integers, Sequences, FiniteSets, TLC

VARIABLES
    incomeData,   \* Index: the income collection held by the page
    expenseData,  \* Index: the expense collection held by the page
    dataLoaded,   \* Index: the dashboard replaces the upload form
    view,         \* the last operation performed, its arguments and its result
    now,          \* the environment's clock (new Date())
    tz,           \* the environment's local offset from UTC, in minutes
    upload        \* FileUpload: the run of handleUpload in flight, or the last one

vars == <<incomeData, expenseData, dataLoaded, view, now, tz, upload>>

-----------------------------------------------------------------------------
(* Bounds of the model *)

\* longest raw text enumerated character by character
MaxLen == 3
\* most rows in one uploaded file
MaxRows == 2
\* largest limit passed to a ranking view
MaxLimit == 2
\* decimal digits kept by a Number
SignificantDigits == 7
\* longest text handed to the text cleaner
MaxText == 7

-----------------------------------------------------------------------------
(* Strings *)

Digits == <<"0", "1", "2", "3", "4", "5", "6", "7", "8", "9">>

IsDigit(c) == \E i \in 1..10 : Digits[i] = c

DigitVal(c) == (CHOOSE i \in 1..10 : Digits[i] = c) - 1

\* UTF-16 code unit of the characters that occur in compared strings
CodeUnit(c) ==
    CASE c = " " -> 32
      [] c = "-" -> 45
      [] c = "/" -> 47
      [] IsDigit(c) -> 48 + DigitVal(c)
      [] OTHER -> 97

RECURSIVE Pow10(_)
Pow10(n) == IF n = 0 THEN 1 ELSE 10 * Pow10(n - 1)

RECURSIVE NatToString(_)
NatToString(n) ==
    IF n < 10 THEN <<Digits[n + 1]>>
    ELSE NatToString(n \div 10) \o <<Digits[(n % 10) + 1]>>

\* Number::toString of an integer
NumberToString(n) == IF n < 0 THEN <<"-">> \o NatToString(-n) ELSE NatToString(n)

RECURSIVE DigitsToNat(_)
DigitsToNat(s) ==
    IF s = <<>> THEN 0
    ELSE 10 * DigitsToNat(SubSeq(s, 1, Len(s) - 1)) + DigitVal(s[Len(s)])

\* the longest prefix of s made of digits
RECURSIVE DigitPrefix(_)
DigitPrefix(s) ==
    IF s = <<>> \/ ~IsDigit(Head(s)) THEN <<>>
    ELSE <<Head(s)>> \o DigitPrefix(Tail(s))

\* a < b in the order of String comparison (code unit by code unit)
RECURSIVE StringLess(_, _)
StringLess(a, b) ==
    IF b = <<>> THEN FALSE
    ELSE IF a = <<>> THEN TRUE
    ELSE IF CodeUnit(Head(a)) # CodeUnit(Head(b))
         THEN CodeUnit(Head(a)) < CodeUnit(Head(b))
    ELSE StringLess(Tail(a), Tail(b))

IsWhiteSpace(c) == c = " "

RECURSIVE TrimStart(_)
TrimStart(s) ==
    IF s # <<>> /\ IsWhiteSpace(Head(s)) THEN TrimStart(Tail(s)) ELSE s

RECURSIVE TrimEnd(_)
TrimEnd(s) ==
    IF s # <<>> /\ IsWhiteSpace(s[Len(s)])
    THEN TrimEnd(SubSeq(s, 1, Len(s) - 1)) ELSE s

\* String.prototype.trim
Trim(s) == TrimEnd(TrimStart(s))

\* s with every character of the class removed (replace(/[class]/g, ''))
RECURSIVE RemoveChars(_, _)
RemoveChars(s, class) ==
    IF s = <<>> THEN <<>>
    ELSE IF Head(s) \in class THEN RemoveChars(Tail(s), class)
    ELSE <<Head(s)>> \o RemoveChars(Tail(s), class)

\* all strings over alphabet of length at most n
RECURSIVE StringsUpTo(_, _)
StringsUpTo(alphabet, n) ==
    IF n = 0 THEN {<<>>}
    ELSE LET shorter == StringsUpTo(alphabet, n - 1)
         IN  shorter \cup {s \o <<c>> : s \in shorter, c \in alphabet}

-----------------------------------------------------------------------------
(* Raw cells *)

Absent == [absent |-> TRUE, s |-> <<>>]

Cell(text) == [absent |-> FALSE, s |-> text]

\* a raw value that is a number and not a text (the rows are any[])
NumberCell(n) == [absent |-> FALSE, s |-> <<>>, number |-> n]

\* typeof cell === 'string'
IsString(cell) == ~cell.absent /\ "number" \notin DOMAIN cell

\* !cell : undefined, the empty string and the number 0 are falsy
IsFalsy(cell) ==
    \/ cell.absent
    \/ IsString(cell) /\ cell.s = <<>>
    \/ "number" \in DOMAIN cell /\ cell.number = 0

-----------------------------------------------------------------------------
(* Numbers: a Number is a count of 1/AmountScale units that keeps
   SignificantDigits decimal digits, where a double keeps 53 binary ones;
   every arithmetic result is rounded to the nearest such value, ties to
   the even one *)

AmountScale == Pow10(MaxLen)

RECURSIVE DigitCount(_)
DigitCount(n) == IF n < 10 THEN 1 ELSE 1 + DigitCount(n \div 10)

\* the representable value nearest to the exact value x
RoundNumber(x) ==
    LET magnitude == IF x < 0 THEN -x ELSE x
        digits == DigitCount(magnitude)
    IN  IF digits <= SignificantDigits THEN x
        ELSE LET quantum == Pow10(digits - SignificantDigits)
                 kept == magnitude \div quantum
                 dropped == magnitude % quantum
                 half == quantum \div 2
                 up == dropped > half \/ (dropped = half /\ kept % 2 = 1)
                 rounded == (IF up THEN kept + 1 ELSE kept) * quantum
             IN  IF x < 0 THEN -rounded ELSE rounded

\* a + b
NumberAdd(a, b) == RoundNumber(a + b)

\* a - b
NumberSub(a, b) == RoundNumber(a - b)

NaN == [nan |-> TRUE, v |-> 0]

Num(v) == [nan |-> FALSE, v |-> v]

\* the fraction digits as a count of AmountScale units
FractionUnits(frac) ==
    LET kept == SubSeq(frac, 1, IF Len(frac) < MaxLen THEN Len(frac) ELSE MaxLen)
    IN  DigitsToNat(kept) * Pow10(MaxLen - Len(kept))

\* parseFloat: optional sign, digits, optional fraction; the longest such
\* prefix after leading white space; NaN when there is none.  The exponent
\* part and "Infinity" need characters outside the model's alphabets.
parseFloat(str) ==
    LET t == TrimStart(str)
        signed == t # <<>> /\ Head(t) \in {"-", "+"}
        negative == signed /\ Head(t) = "-"
        body == IF signed THEN Tail(t) ELSE t
        int == DigitPrefix(body)
        rest == SubSeq(body, Len(int) + 1, Len(body))
        frac == IF rest # <<>> /\ Head(rest) = "." THEN DigitPrefix(Tail(rest)) ELSE <<>>
        magnitude == DigitsToNat(int) * AmountScale + FractionUnits(frac)
    IN  IF int = <<>> /\ frac = <<>> THEN NaN
        ELSE Num(RoundNumber(IF negative THEN -magnitude ELSE magnitude))

CurrencySymbols == {"₹", "$", "€", "£", "¥", ","}

\* amountStr.replace is not a function when amountStr is truthy and not a
\* text: the call raises a TypeError
parseCurrencyThrows(amountStr) == ~IsFalsy(amountStr) /\ ~IsString(amountStr)

\* helpers.parseCurrency: parseFloat(cleanedStr) || 0
parseCurrency(amountStr) ==
    IF IsFalsy(amountStr) THEN 0
    ELSE LET cleanedStr == Trim(RemoveChars(amountStr.s, CurrencySymbols))
             parsed == parseFloat(cleanedStr)
         IN  IF parsed.nan \/ parsed.v = 0 THEN 0 ELSE parsed.v

-----------------------------------------------------------------------------
(* Dates: time value in minutes since 1970-01-01T00:00Z *)

MinutesPerDay == 24 * 60

\* day number of the proleptic Gregorian date y-m-d (m in 1..12)
DaysFromCivil(y, m, d) ==
    LET yy == IF m <= 2 THEN y - 1 ELSE y
        era == yy \div 400
        yoe == yy - era * 400
        mp == IF m > 2 THEN m - 3 ELSE m + 9
        doy == (153 * mp + 2) \div 5 + d - 1
        doe == yoe * 365 + yoe \div 4 - yoe \div 100 + doy
    IN  era * 146097 + doe - 719468

\* the proleptic Gregorian date [y, m, d] of a day number
CivilFromDays(z) ==
    LET zz == z + 719468
        era == zz \div 146097
        doe == zz - era * 146097
        yoe == (doe - doe \div 1460 + doe \div 36524 - doe \div 146096) \div 365
        doy == doe - (365 * yoe + yoe \div 4 - yoe \div 100)
        mp == (5 * doy + 2) \div 153
        d == doy - (153 * mp + 2) \div 5 + 1
        m == IF mp < 10 THEN mp + 3 ELSE mp - 9
    IN  [y |-> (yoe + era * 400) + (IF m <= 2 THEN 1 ELSE 0), m |-> m, d |-> d]

DaysInMonth(y, m) == DaysFromCivil(IF m = 12 THEN y + 1 ELSE y, IF m = 12 THEN 1 ELSE m + 1, 1)
                     - DaysFromCivil(y, m, 1)

AllDigits(s) == \A i \in 1..Len(s) : IsDigit(s[i])

InvalidDate == [valid |-> FALSE, t |-> 0]

\* new Date(string) for the ISO forms YYYY-MM-DD (UTC midnight) and
\* YYYY-MM-DDTHH:mm (local time); any other text of the model's domain is
\* no date at all and gives an invalid Date.
DateFromString(s) ==
    LET dateOk == /\ Len(s) >= 10
                  /\ AllDigits(SubSeq(s, 1, 4)) /\ s[5] = "-"
                  /\ AllDigits(SubSeq(s, 6, 7)) /\ s[8] = "-"
                  /\ AllDigits(SubSeq(s, 9, 10))
        y == DigitsToNat(SubSeq(s, 1, 4))
        m == DigitsToNat(SubSeq(s, 6, 7))
        d == DigitsToNat(SubSeq(s, 9, 10))
        fieldsOk == dateOk /\ m \in 1..12 /\ d >= 1 /\ d <= DaysInMonth(y, m)
        timeOk == /\ Len(s) = 16 /\ s[11] = "T"
                  /\ AllDigits(SubSeq(s, 12, 13)) /\ s[14] = ":"
                  /\ AllDigits(SubSeq(s, 15, 16))
        hh == DigitsToNat(SubSeq(s, 12, 13))
        mi == DigitsToNat(SubSeq(s, 15, 16))
    IN  IF fieldsOk /\ Len(s) = 10
        THEN [valid |-> TRUE, t |-> DaysFromCivil(y, m, d) * MinutesPerDay]
        ELSE IF fieldsOk /\ timeOk /\ hh <= 23 /\ mi <= 59
        THEN [valid |-> TRUE,
              t |-> DaysFromCivil(y, m, d) * MinutesPerDay + hh * 60 + mi - tz]
        ELSE InvalidDate

\* the local calendar date of a Date
LocalCivil(date) == CivilFromDays((date + tz) \div MinutesPerDay)

getFullYear(date) == LocalCivil(date).y

\* the month index in UTC, whatever the local offset
getUTCMonth(date) == CivilFromDays(date \div MinutesPerDay).m - 1

getMonth(date) == LocalCivil(date).m - 1

getDate(date) == LocalCivil(date).d

\* Date.prototype.toLocaleDateString in the en-US locale: M/D/YYYY
toLocaleDateString(date) ==
    NumberToString(getMonth(date) + 1) \o <<"/">> \o NumberToString(getDate(date))
        \o <<"/">> \o NumberToString(getFullYear(date))

\* helpers.parseDate: the parsed Date, or the current instant
parseDate(dateStr) ==
    IF IsFalsy(dateStr) THEN now
    ELSE LET parsedDate == DateFromString(dateStr.s)
         IN  IF ~parsedDate.valid THEN now ELSE parsedDate.t

-----------------------------------------------------------------------------
(* Text cleaning *)

\* the first index k >= from with s[k] = c, or 0
RECURSIVE FirstIndexOf(_, _, _)
FirstIndexOf(s, c, from) ==
    IF from > Len(s) THEN 0
    ELSE IF s[from] = c THEN from
    ELSE FirstIndexOf(s, c, from + 1)

\* the first index k >= from that holds no white space (Len(s) + 1 if none)
RECURSIVE SkipWhiteSpace(_, _)
SkipWhiteSpace(s, from) ==
    IF from <= Len(s) /\ IsWhiteSpace(s[from]) THEN SkipWhiteSpace(s, from + 1)
    ELSE from

\* a match of /\[([^\]]+)\]\([^)]+\)/ starting at i: [ok, last, group]
MatchLinkAt(s, i) ==
    LET j == FirstIndexOf(s, "]", i + 1)
        k == FirstIndexOf(s, ")", j + 2)
        ok == /\ s[i] = "["
              /\ j > i + 1
              /\ j + 1 <= Len(s) /\ s[j + 1] = "("
              /\ k > j + 2
    IN  IF ok THEN [ok |-> TRUE, last |-> k, group |-> SubSeq(s, i + 1, j - 1)]
        ELSE [ok |-> FALSE, last |-> 0, group |-> <<>>]

\* text.replace(/\[([^\]]+)\]\([^)]+\)/g, '$1') from index i on
RECURSIVE ReplaceLinksFrom(_, _)
ReplaceLinksFrom(s, i) ==
    IF i > Len(s) THEN <<>>
    ELSE LET m == MatchLinkAt(s, i)
         IN  IF m.ok THEN m.group \o ReplaceLinksFrom(s, m.last + 1)
             ELSE <<s[i]>> \o ReplaceLinksFrom(s, i + 1)

\* does /(.+?)\s*\([^)]*%[^)]*\)/ match at i with a group of g characters
ParenMatchWith(s, i, g) ==
    LET p == SkipWhiteSpace(s, i + g)
        k == FirstIndexOf(s, ")", p + 1)
    IN  /\ p <= Len(s) /\ s[p] = "("
        /\ k # 0
        /\ \E q \in (p + 1)..(k - 1) : s[q] = "%"

\* a match of /(.+?)\s*\([^)]*%[^)]*\)/ starting at i: the lazy group takes
\* the fewest characters that let the rest match
MatchParenAt(s, i) ==
    LET lens == {g \in 1..(Len(s) - i + 1) : ParenMatchWith(s, i, g)}
    IN  IF lens = {} THEN [ok |-> FALSE, last |-> 0, group |-> <<>>]
        ELSE LET g == CHOOSE x \in lens : \A y \in lens : x <= y
             IN  [ok |-> TRUE,
                  last |-> FirstIndexOf(s, ")", SkipWhiteSpace(s, i + g) + 1),
                  group |-> SubSeq(s, i, i + g - 1)]

\* cleaned.replace(/(.+?)\s*\([^)]*%[^)]*\)/g, '$1') from index i on
RECURSIVE ReplaceParensFrom(_, _)
ReplaceParensFrom(s, i) ==
    IF i > Len(s) THEN <<>>
    ELSE LET m == MatchParenAt(s, i)
         IN  IF m.ok THEN m.group \o ReplaceParensFrom(s, m.last + 1)
             ELSE <<s[i]>> \o ReplaceParensFrom(s, i + 1)

\* helpers.cleanMarkdownLinks
cleanMarkdownLinks(text) ==
    IF IsFalsy(text) THEN <<>>
    ELSE LET cleaned == Trim(ReplaceLinksFrom(text.s, 1))
         IN  Trim(ReplaceParensFrom(cleaned, 1))

-----------------------------------------------------------------------------
(* Record normaliser *)

Unknown == <<"U", "n", "k", "n", "o", "w", "n">>

\* row.X || fallback
OrElse(cell, fallback) == IF IsFalsy(cell) THEN fallback ELSE cell.s

\* the record processIncomeData builds from one row
IncomeRecord(row) ==
    LET date == parseDate(row.Date)
    IN  [Name |-> OrElse(row.Name, Unknown),
         Sources |-> cleanMarkdownLinks(row.Sources),
         Amount |-> parseCurrency(row.Amount),
         Date |-> date,
         formattedDate |-> toLocaleDateString(date),
         month |-> getMonth(date),
         year |-> getFullYear(date)]

\* the record processExpenseData builds from one row
ExpenseRecord(row) ==
    LET date == parseDate(row.Date)
    IN  [Name |-> OrElse(row.Name, Unknown),
         Categories |-> cleanMarkdownLinks(row.Categories),
         Amount |-> parseCurrency(row.Amount),
         Date |-> date,
         Expenses |-> OrElse(row.Expenses, <<>>),
         Notes |-> OrElse(row.Notes, <<>>),
         formattedDate |-> toLocaleDateString(date),
         month |-> getMonth(date),
         year |-> getFullYear(date)]

\* a normaliser that skips the rows whose Amount does not parse
processIncomeDataSkippingBadRows(csvData) ==
    LET Parses(row) == ~IsFalsy(row.Amount)
                       /\ ~parseFloat(Trim(RemoveChars(row.Amount.s, CurrencySymbols))).nan
        kept == SelectSeq(csvData, Parses)
    IN  [i \in 1..Len(kept) |-> IncomeRecord(kept[i])]

\* csvData.map(row => ...)
processIncomeData(csvData) == [i \in 1..Len(csvData) |-> IncomeRecord(csvData[i])]

processExpenseData(csvData) == [i \in 1..Len(csvData) |-> ExpenseRecord(csvData[i])]

-----------------------------------------------------------------------------
(* Arrays *)

Min(a, b) == IF a < b THEN a ELSE b

\* array.slice(0, limit) for limit >= 0
SliceTo(arr, limit) == SubSeq(arr, 1, Min(limit, Len(arr)))

Contains(arr, x) == \E i \in 1..Len(arr) : arr[i] = x

\* [...new Set(arr)] : the first occurrence of each element, in order
RECURSIVE Unique(_)
Unique(arr) ==
    IF arr = <<>> THEN <<>>
    ELSE LET front == Unique(SubSeq(arr, 1, Len(arr) - 1))
             x == arr[Len(arr)]
         IN  IF Contains(front, x) THEN front ELSE Append(front, x)

\* Array.prototype.sort, which is stable: Before(a, b) is "the comparator
\* puts a before b" (a consistent comparator).  Element i lands behind every
\* element the comparator puts before it and every earlier element it ties with.
Sort(arr, Before(_, _)) ==
    LET Precedes(a, j, i) == \/ Before(a[j], a[i])
                             \/ (~Before(a[i], a[j]) /\ j < i)
        Positions(a) ==
            [i \in 1..Len(a) |->
                1 + Cardinality({j \in 1..Len(a) : j # i /\ Precedes(a, j, i)})]
        Placed(a) ==
            {[p \in 1..Len(a) |-> a[CHOOSE i \in 1..Len(a) : pos[i] = p]] :
                pos \in {Positions(a)}}
    IN  CHOOSE sorted \in UNION {Placed(a) : a \in {arr}} : TRUE

-----------------------------------------------------------------------------
(* Plain objects used as maps: the properties [k, v] in creation order *)

EmptyObject == <<>>

HasKey(obj, key) == \E i \in 1..Len(obj) : obj[i].k = key

\* obj[key] || 0
GetOrZero(obj, key) ==
    IF HasKey(obj, key) THEN obj[CHOOSE i \in 1..Len(obj) : obj[i].k = key].v ELSE 0

\* the accessor property every object literal inherits from Object.prototype
ProtoKey == <<"_", "_", "p", "r", "o", "t", "o", "_", "_">>

\* obj[key] = value on an object literal.  Under the key "__proto__" the
\* right-hand side (obj.__proto__ || 0) + amount is a string, which the
\* inherited setter ignores: no own property is made.  The names of the
\* other members of Object.prototype are outside the inputs.
SetKey(obj, key, value) ==
    IF key = ProtoKey THEN obj
    ELSE IF HasKey(obj, key)
    THEN [i \in 1..Len(obj) |-> IF obj[i].k = key THEN [k |-> key, v |-> value] ELSE obj[i]]
    ELSE Append(obj, [k |-> key, v |-> value])

\* a property key that is an array index: the canonical decimal form of an
\* integer (exact for keys of at most 9 characters)
IsArrayIndex(key) ==
    /\ key # <<>> /\ Len(key) <= 9
    /\ AllDigits(key)
    /\ (Len(key) = 1 \/ key[1] # "0")

IndexBefore(a, b) == DigitsToNat(a) < DigitsToNat(b)

\* Object.keys: array-index keys in ascending numeric order, then the other
\* keys in creation order
ObjectKeys(obj) ==
    LET keys == [i \in 1..Len(obj) |-> obj[i].k]
        indices == SelectSeq(keys, IsArrayIndex)
        IsName(key) == ~IsArrayIndex(key)
    IN  Sort(indices, IndexBefore) \o SelectSeq(keys, IsName)

\* Object.entries
ObjectEntries(obj) ==
    LET keys == ObjectKeys(obj)
    IN  [i \in 1..Len(keys) |-> [k |-> keys[i], v |-> GetOrZero(obj, keys[i])]]

-----------------------------------------------------------------------------
(* Aggregation engine: calculators *)

RECURSIVE SumAmounts(_)
SumAmounts(data) ==
    IF data = <<>> THEN 0
    ELSE NumberAdd(SumAmounts(SubSeq(data, 1, Len(data) - 1)), data[Len(data)].Amount)

calculateTotalIncome(data) == SumAmounts(data)

calculateTotalExpenses(data) == SumAmounts(data)

Uncategorized == <<"U", "n", "c", "a", "t", "e", "g", "o", "r", "i", "z", "e", "d">>

\* a reducer that stores each value under its key, a later one over an
\* earlier one: acc[k] = v
RECURSIVE AccumulateOverwriting(_)
AccumulateOverwriting(pairs) ==
    IF pairs = <<>> THEN EmptyObject
    ELSE LET grouped == AccumulateOverwriting(SubSeq(pairs, 1, Len(pairs) - 1))
             item == pairs[Len(pairs)]
         IN  SetKey(grouped, item.k, item.v)

\* the reducer's loop over the [k, v] contributions of the items:
\* grouped[k] = (grouped[k] || 0) + v
RECURSIVE Accumulate(_)
Accumulate(pairs) ==
    IF pairs = <<>> THEN EmptyObject
    ELSE LET grouped == Accumulate(SubSeq(pairs, 1, Len(pairs) - 1))
             item == pairs[Len(pairs)]
         IN  SetKey(grouped, item.k, NumberAdd(GetOrZero(grouped, item.k), item.v))

\* data.reduce((grouped, item) => { ...; return grouped }, {})
GroupBy(data, KeyOf(_)) ==
    Accumulate([i \in 1..Len(data) |-> [k |-> KeyOf(data[i]), v |-> data[i].Amount]])

\* item.Categories || 'Uncategorized'
CategoryKey(item) == IF item.Categories = <<>> THEN Uncategorized ELSE item.Categories

\* item.Sources || 'Uncategorized'
SourceKey(item) == IF item.Sources = <<>> THEN Uncategorized ELSE item.Sources

\* the key with the month index as stored: `${date.getFullYear()}-${date.getMonth()}`
MonthKeyZeroBased(item) ==
    NumberToString(getFullYear(item.Date)) \o <<"-">> \o NumberToString(getMonth(item.Date))

\* `${date.getFullYear()}-${date.getMonth() + 1}`
MonthKey(item) ==
    NumberToString(getFullYear(item.Date)) \o <<"-">> \o NumberToString(getMonth(item.Date) + 1)

\* String(n).padStart(width, '0')
PadZero(n, width) ==
    LET digits == NatToString(n)
    IN  [i \in 1..(width - Len(digits)) |-> "0"] \o digits

\* YYYY-MM-DD of a calendar date
DayText(civil) ==
    PadZero(civil.y, 4) \o <<"-">> \o PadZero(civil.m, 2) \o <<"-">> \o PadZero(civil.d, 2)

\* date-fns format(date, 'yyyy-MM-dd'): the local calendar date
formatDay(date) == DayText(LocalCivil(date))

\* date.toISOString().split('T')[0] : the calendar date in UTC
DateKey(item) == DayText(CivilFromDays(item.Date \div MinutesPerDay))

groupExpensesByCategory(data) == GroupBy(data, CategoryKey)

groupIncomeBySource(data) == GroupBy(data, SourceKey)

groupByMonth(data) == GroupBy(data, MonthKey)

groupByDate(data) == GroupBy(data, DateKey)

-----------------------------------------------------------------------------
(* Aggregation engine: filters *)

filterExpensesByCategory(data, category) ==
    LET Keep(item) == item.Categories = category
    IN  SelectSeq(data, Keep)

filterIncomeBySource(data, source) ==
    LET Keep(item) == item.Sources = source
    IN  SelectSeq(data, Keep)

\* the range without its last instant: itemDate >= startDate && itemDate < endDate
filterByDateRangeBeforeEnd(data, startDate, endDate) ==
    LET Keep(item) == item.Date >= startDate /\ item.Date < endDate
    IN  SelectSeq(data, Keep)

\* itemDate >= startDate && itemDate <= endDate compares the time values
filterByDateRange(data, startDate, endDate) ==
    LET Keep(item) == item.Date >= startDate /\ item.Date <= endDate
    IN  SelectSeq(data, Keep)

UpperCaseLetters == <<"A", "B", "C", "D", "E", "F", "G", "H", "I", "J", "K", "L", "M",
                      "N", "O", "P", "Q", "R", "S", "T", "U", "V", "W", "X", "Y", "Z">>

LowerCaseLetters == <<"a", "b", "c", "d", "e", "f", "g", "h", "i", "j", "k", "l", "m",
                      "n", "o", "p", "q", "r", "s", "t", "u", "v", "w", "x", "y", "z">>

\* String.prototype.toLowerCase on texts of ASCII characters
toLowerCase(str) ==
    [i \in 1..Len(str) |->
        IF \E k \in 1..26 : UpperCaseLetters[k] = str[i]
        THEN LowerCaseLetters[CHOOSE k \in 1..26 : UpperCaseLetters[k] = str[i]]
        ELSE str[i]]

\* String.prototype.includes
includes(str, part) ==
    \E i \in 0..(Len(str) - Len(part)) : SubSeq(str, i + 1, i + Len(part)) = part

\* the keys of a record whose value has typeof 'string': Amount, month and
\* year are numbers and Date is an object
StringKeys(item) == DOMAIN item \ {"Amount", "Date", "month", "year"}

\* a search that lowers the query only: value.includes(lowerQuery)
searchDataExactCase(data, query) ==
    LET lowerQuery == toLowerCase(query)
        Keep(item) == \E key \in StringKeys(item) : includes(item[key], lowerQuery)
    IN  SelectSeq(data, Keep)

\* filters.searchData
searchData(data, query) ==
    LET lowerQuery == toLowerCase(query)
        Keep(item) == \E key \in StringKeys(item) :
                          includes(toLowerCase(item[key]), lowerQuery)
    IN  SelectSeq(data, Keep)

-----------------------------------------------------------------------------
(* The dashboard: its component state and its handlers.  Version 1 keeps
   filteredExpenses only; version 2 keeps filteredIncomes too and runs an
   effect when its props change.  A handler reads the state of the render
   it was made in: what it sets is not seen by the applyFilters it calls. *)

\* the value 'all' of the year and month selects
TextAll == <<"a", "l", "l">>

\* expense.Name / Categories / Notes .toLowerCase().includes(lowercaseQuery)
ExpenseMatches(expense, lowercaseQuery) ==
    \/ includes(toLowerCase(expense.Name), lowercaseQuery)
    \/ includes(toLowerCase(expense.Categories), lowercaseQuery)
    \/ includes(toLowerCase(expense.Notes), lowercaseQuery)

\* income.Name / Sources .toLowerCase().includes(lowercaseQuery)
IncomeMatches(income, lowercaseQuery) ==
    \/ includes(toLowerCase(income.Name), lowercaseQuery)
    \/ includes(toLowerCase(income.Sources), lowercaseQuery)

\* the year and month steps of applyFilters, the same for both collections
InPeriod(data, year, month) ==
    LET InYear(item) == year = TextAll \/ NumberToString(item.year) = year
        InMonth(item) == month = TextAll \/ NumberToString(item.month) = month
    IN  SelectSeq(SelectSeq(data, InYear), InMonth)

\* applyFilters(year, month) called by a handler of the render whose state
\* is d: selectedCategory and searchQuery are those of d
applyFilters(d, income, expense, year, month) ==
    LET InCategory(item) == d.selectedCategory.absent
                            \/ d.selectedCategory.s = <<>>
                            \/ item.Categories = d.selectedCategory.s
        lowercaseQuery == toLowerCase(d.searchQuery)
        ExpenseFound(item) == d.searchQuery = <<>> \/ ExpenseMatches(item, lowercaseQuery)
        IncomeFound(item) == d.searchQuery = <<>> \/ IncomeMatches(item, lowercaseQuery)
        filteredExp == SelectSeq(SelectSeq(InPeriod(expense, year, month), InCategory),
                                 ExpenseFound)
        filteredInc == SelectSeq(InPeriod(income, year, month), IncomeFound)
    IN  IF d.version = 1
        THEN [d EXCEPT !.filteredExpenses = filteredExp]
        ELSE [d EXCEPT !.filteredExpenses = filteredExp, !.filteredIncomes = filteredInc]

\* the state of the first render: useState(expenseData), useState(incomeData)
FinanceDashboard(version, income, expense) ==
    [op |-> "FinanceDashboard", version |-> version,
     selectedCategory |-> Absent, searchQuery |-> <<>>,
     selectedYear |-> TextAll, selectedMonth |-> TextAll,
     filteredExpenses |-> expense, filteredIncomes |-> income,
     deps |-> [income |-> income, expense |-> expense]]

handleCategoryClick(d, expense, category) ==
    [d EXCEPT !.selectedCategory = Cell(category),
              !.filteredExpenses = filterExpensesByCategory(expense, category)]

handleSearch(d, income, expense, query) ==
    LET lowercaseQuery == toLowerCase(query)
        ExpenseFound(item) == ExpenseMatches(item, lowercaseQuery)
        IncomeFound(item) == IncomeMatches(item, lowercaseQuery)
    IN  IF d.version = 1
        THEN [d EXCEPT !.searchQuery = query,
                       !.filteredExpenses = IF query = <<>> THEN expense
                                            ELSE SelectSeq(expense, ExpenseFound)]
        ELSE IF query = <<>>
        THEN [applyFilters(d, income, expense, d.selectedYear, d.selectedMonth)
                  EXCEPT !.searchQuery = query]
        ELSE [d EXCEPT !.searchQuery = query,
                       !.filteredExpenses = SelectSeq(d.filteredExpenses, ExpenseFound),
                       !.filteredIncomes = SelectSeq(d.filteredIncomes, IncomeFound)]

handleYearChange(d, income, expense, value) ==
    [applyFilters(d, income, expense, value, d.selectedMonth) EXCEPT !.selectedYear = value]

handleMonthChange(d, income, expense, value) ==
    [applyFilters(d, income, expense, d.selectedYear, value) EXCEPT !.selectedMonth = value]

\* the Clear button: setSelectedCategory(null); applyFilters(selectedYear, selectedMonth)
clearCategory(d, income, expense) ==
    [applyFilters(d, income, expense, d.selectedYear, d.selectedMonth)
        EXCEPT !.selectedCategory = Absent]

resetFilters(d, income, expense) ==
    IF d.version = 1
    THEN [d EXCEPT !.selectedCategory = Absent, !.searchQuery = <<>>,
                   !.selectedYear = TextAll, !.selectedMonth = TextAll,
                   !.filteredExpenses = expense]
    ELSE [applyFilters(d, income, expense, TextAll, TextAll)
              EXCEPT !.selectedCategory = Absent, !.searchQuery = <<>>,
                     !.selectedYear = TextAll, !.selectedMonth = TextAll]

\* useEffect(() => applyFilters('all', 'all'), [incomeData, expenseData])
propsEffect(d, income, expense) ==
    [applyFilters(d, income, expense, TextAll, TextAll)
        EXCEPT !.deps = [income |-> income, expense |-> expense]]

\* what ExpensePieChart is given to draw
PieChartData(d, expense) ==
    IF d.version = 1
    THEN IF d.selectedCategory.absent THEN expense ELSE d.filteredExpenses
    ELSE d.filteredExpenses

-----------------------------------------------------------------------------
(* TransactionTable: the component is the record of its props (incomeData,
   expenseData), its state (searchQuery, typeFilter, sortField,
   sortDirection, currentPage) and, once rendered, the memo
   sortedTransactions; every handler below is followed by the effects its
   render schedules *)

itemsPerPage == 10

\* of the five headers that sort (type, name, category, amount, date),
\* those clicked
ClickedFields == {"name", "amount", "date"}

TextIncome == <<"i", "n", "c", "o", "m", "e">>
TextExpense == <<"e", "x", "p", "e", "n", "s", "e">>

\* the memo allTransactions: the income records, then the expense records
allTransactions(t) ==
    [i \in 1..Len(t.incomeData) |->
        LET income == t.incomeData[i]
        IN  [id |-> <<TextIncome, income.Name, income.Date>>,
             type |-> TextIncome,
             name |-> income.Name,
             category |-> income.Sources,
             amount |-> income.Amount,
             date |-> income.Date,
             formattedDate |-> IF income.formattedDate = <<>>
                               THEN toLocaleDateString(income.Date)
                               ELSE income.formattedDate,
             notes |-> <<>>]]
    \o
    [i \in 1..Len(t.expenseData) |->
        LET expense == t.expenseData[i]
        IN  [id |-> <<TextExpense, expense.Name, expense.Date>>,
             type |-> TextExpense,
             name |-> expense.Name,
             category |-> expense.Categories,
             amount |-> expense.Amount,
             date |-> expense.Date,
             formattedDate |-> IF expense.formattedDate = <<>>
                               THEN toLocaleDateString(expense.Date)
                               ELSE expense.formattedDate,
             notes |-> expense.Notes]]

\* the memo filteredTransactions: the type filter, then the search over
\* name, category and (non-empty) notes
filteredTransactions(t) ==
    LET query == toLowerCase(t.searchQuery)
        Keep(transaction) ==
            IF t.typeFilter # TextAll /\ transaction.type # t.typeFilter THEN FALSE
            ELSE IF t.searchQuery # <<>>
                 THEN \/ includes(toLowerCase(transaction.name), query)
                      \/ includes(toLowerCase(transaction.category), query)
                      \/ (transaction.notes # <<>>
                          /\ includes(toLowerCase(transaction.notes), query))
            ELSE TRUE
    IN  SelectSeq(allTransactions(t), Keep)

\* the comparator of sortedTransactions puts a before b (texts of letters
\* and digits compare under localeCompare as they do code unit by code unit)
TransactionBefore(t, a, b) ==
    IF t.sortField = "date"
    THEN IF t.sortDirection = "asc" THEN a.date < b.date ELSE b.date < a.date
    ELSE IF t.sortField = "amount"
    THEN IF t.sortDirection = "asc" THEN a.amount < b.amount ELSE b.amount < a.amount
    ELSE LET aValue == toLowerCase(a[t.sortField])
             bValue == toLowerCase(b[t.sortField])
         IN  IF t.sortDirection = "asc" THEN StringLess(aValue, bValue)
             ELSE StringLess(bValue, aValue)

\* the memo sortedTransactions: a sorted copy of filteredTransactions
sortedTransactions(t) ==
    LET Before(a, b) == TransactionBefore(t, a, b)
    IN  Sort(filteredTransactions(t), Before)

\* Math.ceil(sortedTransactions.length / itemsPerPage), of the last render
totalPages(t) == (Len(t.sortedTransactions) + itemsPerPage - 1) \div itemsPerPage

startIndex(t) == (t.currentPage - 1) * itemsPerPage

\* Array.prototype.slice(start, end) with 0 <= start <= end
slice(arr, start, end) ==
    IF start >= Len(arr) THEN <<>> ELSE SubSeq(arr, start + 1, Min(end, Len(arr)))

\* the rows of the shown page
paginatedTransactions(t) ==
    slice(t.sortedTransactions, startIndex(t), startIndex(t) + itemsPerPage)

\* the effect on [searchQuery, typeFilter, sortField, sortDirection]:
\* setCurrentPage(1) after a render in which one of them differs from the
\* render before
pageEffect(before, after) ==
    IF <<after.searchQuery, after.typeFilter, after.sortField, after.sortDirection>>
        # <<before.searchQuery, before.typeFilter, before.sortField, before.sortDirection>>
    THEN [after EXCEPT !.currentPage = 1]
    ELSE after

\* the component as mounted: the initial state, whose effects change nothing
TransactionTable(income, expense) ==
    [op |-> "TransactionTable", incomeData |-> income, expenseData |-> expense,
     searchQuery |-> <<>>, typeFilter |-> TextAll, sortField |-> "date",
     sortDirection |-> "desc", currentPage |-> 1]

\* onChange of the search input
setSearchQuery(t, value) == pageEffect(t, [t EXCEPT !.searchQuery = value])

\* onValueChange of the type select
setTypeFilter(t, value) == pageEffect(t, [t EXCEPT !.typeFilter = value])

\* a click on a column header
handleSort(t, field) ==
    pageEffect(t, IF field = t.sortField
                  THEN [t EXCEPT !.sortDirection = IF @ = "asc" THEN "desc" ELSE "asc"]
                  ELSE [t EXCEPT !.sortField = field, !.sortDirection = "desc"])

\* the Previous button
previousPage(t) == [t EXCEPT !.currentPage = IF @ - 1 < 1 THEN 1 ELSE @ - 1]

\* the Next button
nextPage(t) == [t EXCEPT !.currentPage = Min(totalPages(t), @ + 1)]

\* the buttons "1" and totalPages
setCurrentPage(t, page) == [t EXCEPT !.currentPage = page]

\* a render with new props: the effect on [incomeData, expenseData] sets the
\* sort back to date, descending, and the page effect follows if that
\* changed the sort
propsChanged(t, income, expense) ==
    LET rendered == [t EXCEPT !.incomeData = income, !.expenseData = expense]
    IN  pageEffect(rendered, [rendered EXCEPT !.sortField = "date",
                                              !.sortDirection = "desc"])

\* the render that follows: the memos are recomputed and, with two to five
\* pages, the JSX reads pageButtons, which nothing declares, and throws
Render(t) ==
    \E state \in {t} :
        \E sorted \in {sortedTransactions(state)} :
            LET rendered == [sortedTransactions |-> sorted] @@ state
            IN  view' = IF totalPages(rendered) > 1 /\ totalPages(rendered) <= 5
                        THEN [op |-> "ReferenceError", name |-> "pageButtons"]
                        ELSE rendered

-----------------------------------------------------------------------------
(* Derived views *)

\* (a, b) => b.amount - a.amount puts a first when the difference is negative
AmountDescending(a, b) == NumberSub(b.amount, a.amount) < 0

\* views.getTopSpendingCategories
getTopSpendingCategories(data, limit) ==
    LET categoriesMap == groupExpensesByCategory(data)
        entries == ObjectEntries(categoriesMap)
        mapped == [i \in 1..Len(entries) |->
                      [category |-> entries[i].k, amount |-> entries[i].v]]
    IN  SliceTo(Sort(mapped, AmountDescending), limit)

\* Array.prototype.sort with no comparator, on strings
DefaultSortStrings(arr) == Sort(arr, StringLess)

NumberStringLess(a, b) == StringLess(NumberToString(a), NumberToString(b))

\* Array.prototype.sort with no comparator, on numbers: the elements are
\* compared as strings
DefaultSortNumbers(arr) == Sort(arr, NumberStringLess)

\* views.getCashFlowData
getCashFlowData(income, expense) ==
    LET incomeByMonth == groupByMonth(income)
        expensesByMonth == groupByMonth(expense)
        allMonths == DefaultSortStrings(
                         Unique(ObjectKeys(incomeByMonth) \o ObjectKeys(expensesByMonth)))
    IN  [i \in 1..Len(allMonths) |->
            [date |-> allMonths[i],
             cashFlow |-> NumberSub(GetOrZero(incomeByMonth, allMonths[i]),
                                    GetOrZero(expensesByMonth, allMonths[i]))]]

\* new Date(new Date().getFullYear(), 0, 1): the local midnight that begins
\* the current year
StartOfYear == DaysFromCivil(getFullYear(now), 1, 1) * MinutesPerDay - tz

\* views.getDailySpendingData: the day buckets of the records in the range,
\* each with the Date its key denotes
getDailySpendingData(data, startDate, endDate) ==
    LET filteredData == filterByDateRange(data, startDate, endDate)
        dateMap == ObjectEntries(groupByDate(filteredData))
    IN  [i \in 1..Len(dateMap) |->
            [date |-> DateFromString(dateMap[i].k).t, amount |-> dateMap[i].v]]

\* DailySpendingCalendar's lookup table: getDailySpendingData with its
\* default range, each entry stored under the local day of its Date
spendingMap(expense) ==
    LET spendingData == getDailySpendingData(expense, StartOfYear, now)
    IN  AccumulateOverwriting([i \in 1..Len(spendingData) |->
            [k |-> formatDay(spendingData[i].date), v |-> spendingData[i].amount]])

\* the comparator with its operands exchanged: a.Amount - b.Amount
LargerAmountLast(a, b) == NumberSub(a.Amount, b.Amount) < 0

\* (a, b) => b.Amount - a.Amount
LargerAmountFirst(a, b) == NumberSub(b.Amount, a.Amount) < 0

\* data.sort(...): sort reorders the array it is called on, here the
\* argument itself
SortedInPlace(data) ==
    [data |-> Sort(data, LargerAmountFirst), sorted |-> Sort(data, LargerAmountFirst)]

\* [...data].sort(...): the spread makes a new array and sort reorders that
\* one; data is the argument once the call is over
SortedCopy(data) ==
    [data |-> data, sorted |-> Sort(data, LargerAmountFirst)]

\* views.getNotableTransactions
getNotableTransactions(income, expense, limit) ==
    [topIncome |-> SliceTo(SortedCopy(income).sorted, limit),
     topExpenses |-> SliceTo(SortedCopy(expense).sorted, limit)]

\* Number(key) for the decimal form of an integer
StringToNumber(s) ==
    IF s # <<>> /\ Head(s) = "-" THEN -DigitsToNat(Tail(s)) ELSE DigitsToNat(s)

\* item.year || new Date().getFullYear(), as the property key it becomes
YearKey(item) ==
    NumberToString(IF item.year = 0 THEN getFullYear(now) ELSE item.year)

\* views.getYearlySummary
getYearlySummary(income, expense) ==
    LET incomeByYear == GroupBy(income, YearKey)
        expensesByYear == GroupBy(expense, YearKey)
        incomeYears == ObjectKeys(incomeByYear)
        expenseYears == ObjectKeys(expensesByYear)
        numbers == [i \in 1..(Len(incomeYears) + Len(expenseYears)) |->
                       StringToNumber((incomeYears \o expenseYears)[i])]
        allYears == DefaultSortNumbers(Unique(numbers))
    IN  [i \in 1..Len(allYears) |->
            [year |-> allYears[i],
             income |-> GetOrZero(incomeByYear, NumberToString(allYears[i])),
             expenses |-> GetOrZero(expensesByYear, NumberToString(allYears[i]))]]

-----------------------------------------------------------------------------
(* Chart components *)

\* String.prototype.split on a one-character separator
RECURSIVE Split(_, _)
Split(s, sep) ==
    LET k == FirstIndexOf(s, sep, 1)
    IN  IF k = 0 THEN <<s>>
        ELSE <<SubSeq(s, 1, k - 1)>> \o Split(SubSeq(s, k + 1, Len(s)), sep)

\* parseInt(str): optional sign and the leading digits, NaN without digits
parseInt(str) ==
    LET t == TrimStart(str)
        signed == t # <<>> /\ Head(t) \in {"-", "+"}
        body == IF signed THEN Tail(t) ELSE t
        int == DigitPrefix(body)
    IN  IF int = <<>> THEN NaN
        ELSE Num(IF signed /\ Head(t) = "-" THEN -DigitsToNat(int) ELSE DigitsToNat(int))

InvalidLabel == [valid |-> FALSE, year |-> 0, month |-> 0]

\* new Date(year, monthIndex) shown with { month: 'short', year: 'numeric' }:
\* the local year and month index of the first day of that month; a year
\* of 0..99 means 1900 + year
MonthYearLabel(year, monthIndex) ==
    IF year.nan \/ monthIndex.nan THEN InvalidLabel
    ELSE LET full == IF year.v >= 0 /\ year.v <= 99 THEN 1900 + year.v ELSE year.v
         IN  [valid |-> TRUE,
              year |-> full + (monthIndex.v \div 12),
              month |-> monthIndex.v % 12]

\* const [year, monthNum] = month.split('-'); new Date(parseInt(year), parseInt(monthNum) - 1)
KeyLabel(key) ==
    LET parts == Split(key, "-")
        year == parseInt(parts[1])
        monthNum == IF Len(parts) >= 2 THEN parseInt(parts[2]) ELSE NaN
    IN  MonthYearLabel(year, IF monthNum.nan THEN NaN ELSE Num(monthNum.v - 1))

\* MonthlyTrendChart: chartData
MonthlyTrendChartData(income, expense) ==
    LET incomeByMonth == groupByMonth(income)
        expensesByMonth == groupByMonth(expense)
        allMonths == Unique(ObjectKeys(incomeByMonth) \o ObjectKeys(expensesByMonth))
        sortedMonths == DefaultSortStrings(allMonths)
    IN  [i \in 1..Len(sortedMonths) |->
            [month |-> KeyLabel(sortedMonths[i]),
             income |-> GetOrZero(incomeByMonth, sortedMonths[i]),
             expenses |-> GetOrZero(expensesByMonth, sortedMonths[i]),
             savings |-> NumberSub(GetOrZero(incomeByMonth, sortedMonths[i]),
                                   GetOrZero(expensesByMonth, sortedMonths[i]))]]

\* a.rawDate.localeCompare(b.rawDate) < 0: on keys made of digits and "-"
\* the collation order is the code-unit order
RawDateBefore(a, b) == StringLess(a.rawDate, b.rawDate)

\* CashFlowChart: chartData
CashFlowChartData(income, expense) ==
    LET cashFlowData == getCashFlowData(income, expense)
        mapped == [i \in 1..Len(cashFlowData) |->
                      [date |-> KeyLabel(cashFlowData[i].date),
                       cashFlow |-> cashFlowData[i].cashFlow,
                       rawDate |-> cashFlowData[i].date]]
    IN  Sort(mapped, RawDateBefore)

\* item.month || 0, as the property key it becomes
MonthFieldKey(item) == NumberToString(IF item.month = 0 THEN 0 ELSE item.month)

\* the running sum of CumulativeSavingsChart up to month index i
RECURSIVE RunningSavings(_, _, _)
RunningSavings(monthlyIncome, monthlyExpenses, i) ==
    IF i < 0 THEN 0
    ELSE NumberAdd(RunningSavings(monthlyIncome, monthlyExpenses, i - 1),
                   NumberSub(GetOrZero(monthlyIncome, NumberToString(i)),
                             GetOrZero(monthlyExpenses, NumberToString(i))))

\* the chart without its filter on the selected year
CumulativeSavingsAllYears(income, expense, year) ==
    LET monthlyIncome == GroupBy(income, MonthFieldKey)
        monthlyExpenses == GroupBy(expense, MonthFieldKey)
    IN  [n \in 1..12 |->
            [month |-> n - 1,
             cumulativeSavings |-> RunningSavings(monthlyIncome, monthlyExpenses, n - 1),
             monthlySavings |-> NumberSub(GetOrZero(monthlyIncome, NumberToString(n - 1)),
                                          GetOrZero(monthlyExpenses, NumberToString(n - 1)))]]

\* CumulativeSavingsChart: chartData (entry i + 1 is month index i)
CumulativeSavingsChartData(income, expense, year) ==
    LET InYear(item) == item.year = year
        monthlyIncome == GroupBy(SelectSeq(income, InYear), MonthFieldKey)
        monthlyExpenses == GroupBy(SelectSeq(expense, InYear), MonthFieldKey)
    IN  [n \in 1..12 |->
            [month |-> n - 1,
             cumulativeSavings |-> RunningSavings(monthlyIncome, monthlyExpenses, n - 1),
             monthlySavings |-> NumberSub(GetOrZero(monthlyIncome, NumberToString(n - 1)),
                                          GetOrZero(monthlyExpenses, NumberToString(n - 1)))]]

-----------------------------------------------------------------------------
(* Report generator: the percentage cells of the report *)

\* the limit of getTopSpendingCategories when none is passed
DefaultLimit == 5

NotApplicable == <<"N", "/", "A">>
NaNText == <<"N", "a", "N">>
InfinityText == <<"I", "n", "f", "i", "n", "i", "t", "y">>

\* n / d to the nearest integer, for d # 0
RoundDiv(n, d) ==
    LET an == IF n < 0 THEN -n ELSE n
        ad == IF d < 0 THEN -d ELSE d
        q == (2 * an + ad) \div (2 * ad)
    IN  IF (n < 0) # (d < 0) THEN -q ELSE q

\* ((a / b) * 100).toFixed(1): a quotient by zero is NaN or an infinity,
\* which toFixed prints by name
PercentToFixed(a, b) ==
    IF b = 0
    THEN IF a = 0 THEN NaNText
         ELSE IF a > 0 THEN InfinityText ELSE <<"-">> \o InfinityText
    ELSE LET tenths == RoundDiv(a * 1000, b)
             magnitude == IF tenths < 0 THEN -tenths ELSE tenths
         IN  (IF tenths < 0 THEN <<"-">> ELSE <<>>)
             \o NatToString(magnitude \div 10) \o <<".">> \o NatToString(magnitude % 10)

\* income > 0 ? ((savings / income) * 100).toFixed(1) + '%' : 'N/A'
SavingsRate(income, savings) ==
    IF income > 0 THEN PercentToFixed(savings, income) \o <<"%">> ELSE NotApplicable

\* generateReport: the Savings Rate line of the summary, the rows of the
\* top categories table and the Savings Rate column of the yearly table
generateReport(income, expense) ==
    LET totalIncome == calculateTotalIncome(income)
        totalExpenses == calculateTotalExpenses(expense)
        netSavings == NumberSub(totalIncome, totalExpenses)
        topCategories == getTopSpendingCategories(expense, DefaultLimit)
        yearlySummary == getYearlySummary(income, expense)
    IN  [totalIncome |-> totalIncome,
         totalExpenses |-> totalExpenses,
         savingsRate |-> SavingsRate(totalIncome, netSavings),
         topCategoriesData |->
             [i \in 1..Len(topCategories) |->
                 [category |-> NatToString(i) \o <<".", " ">> \o topCategories[i].category,
                  amount |-> topCategories[i].amount,
                  percentage |-> PercentToFixed(topCategories[i].amount, totalExpenses)
                                     \o <<"%">>]],
         yearlyData |->
             [i \in 1..Len(yearlySummary) |->
                 [year |-> yearlySummary[i].year,
                  income |-> yearlySummary[i].income,
                  savingsRate |-> SavingsRate(yearlySummary[i].income,
                                              NumberSub(yearlySummary[i].income,
                                                        yearlySummary[i].expenses))]]]

-----------------------------------------------------------------------------
(* Inputs of the model *)

\* all sequences over S of length at most n
RECURSIVE SeqsUpTo(_, _)
SeqsUpTo(S, n) ==
    IF n = 0 THEN {<<>>}
    ELSE LET shorter == SeqsUpTo(S, n - 1)
         IN  shorter \cup {Append(q, x) : q \in shorter, x \in S}

NoFile == [selected |-> FALSE, rows |-> <<>>]

File(rows) == [selected |-> TRUE, rows |-> rows]

\* the files a user can select: none, or one with the given rows
Files(rowSet, n) == {NoFile} \cup {File(rows) : rows \in SeqsUpTo(rowSet, n)}

\* the text YYYY-MM-DD of a calendar date
IsoText(y, m, d) ==
    LET Pad(s, n) == [i \in 1..(n - Len(s)) |-> "0"] \o s
    IN  Pad(NatToString(y), 4) \o <<"-">> \o Pad(NatToString(m), 2)
            \o <<"-">> \o Pad(NatToString(d), 2)

\* raw texts of the sample rows
TextAl == <<"A", "l">>
TextJob == <<"J", "o", "b">>
TextJobLink == <<"[", "J", "o", "b", "]", "(", "u", ")">>
TextFood == <<"F", "o", "o", "d">>
TextFoodNote == <<"F", "o", "o", "d", " ", "(", "a", "%", "b", ")">>
TextTen == <<"1", "0">>
TextGarbage == <<"a", "b", "c">>
TextFive == <<"5">>
TextSeven == <<"7">>
TextPrice == <<"$", "1", ",", "2", "0", "0", ".", "5">>
TextMinusFive == <<"-", "5">>
TextNote == <<"n", "o", "t", "e">>

IncomeRow(name, sources, amount, date) ==
    [Name |-> name, Sources |-> sources, Amount |-> amount, Date |-> date]

ExpenseRow(name, categories, amount, date, notes) ==
    [Name |-> name, Categories |-> categories, Amount |-> amount, Date |-> date,
     Expenses |-> notes, Notes |-> notes]

\* the clock of the session
ClockStart == DaysFromCivil(2024, 6, 15) * MinutesPerDay + 600

AmountAlphabet == {"-", "5", "0", ".", "$", ",", "a", " "}

TextRupees == <<"₹", "1", ",", "2", "0", "0", ".", "5", "0">>

TextAbc == <<"a", "b", "c">>

\* every raw Amount cell: absent, a text of at most MaxLen characters, one
\* of two longer texts, or a number
AmountCells ==
    {Absent} \cup {Cell(s) : s \in StringsUpTo(AmountAlphabet, MaxLen)}
             \cup {Cell(TextRupees), Cell(TextAbc), NumberCell(0), NumberCell(5)}

-----------------------------------------------------------------------------
(* The state machine *)

NoView == [op |-> "none"]

\* no run of handleUpload yet.  pc is the await the run is suspended at;
\* seen holds the collections of the render whose callbacks the run calls;
\* delivered names the collections the run has handed to the page.
IdleUpload ==
    [pc |-> "idle", isUploading |-> FALSE, outcome |-> "none",
     incomeFile |-> NoFile, expenseFile |-> NoFile,
     seen |-> [income |-> <<>>, expense |-> <<>>], delivered |-> {}]

InitSession ==
    /\ incomeData = <<>>
    /\ expenseData = <<>>
    /\ dataLoaded = FALSE
    /\ view = NoView
    /\ now = ClockStart
    /\ upload = IdleUpload

\* FileUpload.handleUpload with Index.handleIncomeDataLoaded and
\* Index.handleExpenseDataLoaded: each selected file is parsed, normalised
\* and handed to the page, which shows the dashboard once a collection is
\* not empty.  The upload form exists only while dataLoaded is false.
HandleUpload(incomeFile, expenseFile) ==
    /\ ~dataLoaded
    /\ ~upload.isUploading
    /\ incomeFile.selected \/ expenseFile.selected
    /\ incomeData' = IF incomeFile.selected THEN processIncomeData(incomeFile.rows)
                      ELSE incomeData
    /\ expenseData' = IF expenseFile.selected THEN processExpenseData(expenseFile.rows)
                       ELSE expenseData
    /\ dataLoaded' = (Len(incomeData') > 0 \/ Len(expenseData') > 0)
    /\ view' = [op |-> "handleUpload", incomeFile |-> incomeFile,
                                       expenseFile |-> expenseFile]
    /\ UNCHANGED <<now, tz, upload>>

\* what a call of a pure operation leaves alone
session == <<incomeData, expenseData, dataLoaded, now, tz, upload>>

----
(* handleUpload step by step: the handler is suspended at each await of
   parseCSV, and the page renders in between. *)

\* Index.checkDataLoaded
checkDataLoaded(income, expenses) == Len(income) > 0 \/ Len(expenses) > 0

\* a handler without the finally block: a failed run keeps isUploading set
FinishedUnlessFailed(run, outcome) ==
    [run EXCEPT !.pc = "idle", !.isUploading = (outcome = "failed"), !.outcome = outcome]

\* finally { setIsUploading(false) }
Finished(run, outcome) ==
    [run EXCEPT !.pc = "idle", !.isUploading = FALSE, !.outcome = outcome]

\* the button of the upload form is pressed: up to the first await
ClickUpload(incomeFile, expenseFile) ==
    /\ ~dataLoaded
    /\ ~upload.isUploading
    /\ incomeFile.selected \/ expenseFile.selected
    /\ upload' = [pc |-> IF incomeFile.selected THEN "parseIncome" ELSE "parseExpense",
                  isUploading |-> TRUE, outcome |-> "none",
                  incomeFile |-> incomeFile, expenseFile |-> expenseFile,
                  seen |-> [income |-> incomeData, expense |-> expenseData],
                  delivered |-> {}]
    /\ view' = NoView
    /\ UNCHANGED <<incomeData, expenseData, dataLoaded, now, tz>>

\* the income rows handed to the callback of the other side
IncomeParsedIntoExpenses ==
    /\ upload.pc = "parseIncome"
    /\ expenseData' = processIncomeData(upload.incomeFile.rows)
    /\ dataLoaded' = (dataLoaded \/ checkDataLoaded(upload.seen.income, expenseData'))
    /\ upload' = IF upload.expenseFile.selected
                 THEN [upload EXCEPT !.pc = "parseExpense", !.delivered = @ \cup {"income"}]
                 ELSE Finished([upload EXCEPT !.delivered = @ \cup {"income"}], "done")
    /\ UNCHANGED <<incomeData, view, now, tz>>

\* parseCSV(incomeFile) resolves: the rows are normalised and handed to
\* Index.handleIncomeDataLoaded, then the expense file, if any, is parsed
IncomeParsed ==
    /\ upload.pc = "parseIncome"
    /\ incomeData' = processIncomeData(upload.incomeFile.rows)
    /\ dataLoaded' = (dataLoaded \/ checkDataLoaded(incomeData', upload.seen.expense))
    /\ upload' = IF upload.expenseFile.selected
                 THEN [upload EXCEPT !.pc = "parseExpense", !.delivered = @ \cup {"income"}]
                 ELSE Finished([upload EXCEPT !.delivered = @ \cup {"income"}], "done")
    /\ UNCHANGED <<expenseData, view, now, tz>>

\* parseCSV(expenseFile) resolves: the rows are normalised and handed to
\* Index.handleExpenseDataLoaded
ExpenseParsed ==
    /\ upload.pc = "parseExpense"
    /\ expenseData' = processExpenseData(upload.expenseFile.rows)
    /\ dataLoaded' = (dataLoaded \/ checkDataLoaded(upload.seen.income, expenseData'))
    /\ upload' = Finished([upload EXCEPT !.delivered = @ \cup {"expense"}], "done")
    /\ UNCHANGED <<incomeData, view, now, tz>>

\* parseCSV rejects: the catch block reports the error
ParseFailed ==
    /\ upload.pc \in {"parseIncome", "parseExpense"}
    /\ upload' = Finished(upload, "failed")
    /\ UNCHANGED <<incomeData, expenseData, dataLoaded, view, now, tz>>

\* FinanceDashboard renders: the summary cards add up the collections
RenderDashboard ==
    /\ dataLoaded
    /\ view' = [op |-> "FinanceDashboard",
                totalIncome |-> SumAmounts(incomeData),
                totalExpenses |-> SumAmounts(expenseData),
                netSavings |-> NumberSub(SumAmounts(incomeData), SumAmounts(expenseData)),
                during |-> upload.pc]
    /\ UNCHANGED session

UploadIncomeRows ==
    {IncomeRow(Cell(TextAl), Cell(TextJob), a, Cell(IsoText(2023, 2, 1))) :
        a \in {Cell(TextFive), Cell(TextSeven)}}

UploadExpenseRows ==
    {ExpenseRow(Cell(TextAl), Cell(TextFood), Cell(TextSeven), Cell(IsoText(2023, 2, 1)), Absent)}

PressUpload ==
    \E incomeFile \in Files(UploadIncomeRows, MaxRows),
       expenseFile \in Files(UploadExpenseRows, MaxRows) :
        ClickUpload(incomeFile, expenseFile)

InitUpload == InitSession /\ tz = 0

NextUpload ==
    \/ PressUpload
    \/ IncomeParsed
    \/ ExpenseParsed
    \/ ParseFailed
    \/ RenderDashboard

SpecUpload == InitUpload /\ [][NextUpload]_vars

\* Papa.parse calls complete or error for every file it is given, so the
\* promise an upload awaits is settled and the handler resumes
ParseSettles == ParseFailed \/ IncomeParsed \/ ExpenseParsed

SpecUploadFair == SpecUpload /\ WF_vars(ParseSettles)

----
(* Field coercion on its own: the raw cell is drawn at the start *)

ParseCurrency ==
    /\ view.op = "cell"
    /\ view' = [op |-> "parseCurrency", amountStr |-> view.cell,
                threw |-> parseCurrencyThrows(view.cell),
                result |-> IF parseCurrencyThrows(view.cell) THEN 0
                           ELSE parseCurrency(view.cell)]
    /\ UNCHANGED session

InitCoerce ==
    /\ incomeData = <<>> /\ expenseData = <<>> /\ dataLoaded = FALSE
    /\ now = ClockStart /\ tz = 0 /\ upload = IdleUpload
    /\ view \in {[op |-> "cell", cell |-> c] : c \in AmountCells}

NextCoerce == ParseCurrency

SpecCoerce == InitCoerce /\ [][NextCoerce]_vars

----
(* Normalisation of rows whose cells are missing, malformed or well formed *)

RawIncomeRows ==
    {IncomeRow(Absent, Absent, Absent, Absent),
     IncomeRow(Cell(<<>>), Cell(<<>>), Cell(TextGarbage), Cell(TextGarbage)),
     IncomeRow(Cell(TextAl), Cell(TextJobLink), Cell(TextPrice), Cell(IsoText(2023, 2, 1))),
     IncomeRow(Cell(TextAl), Cell(TextJob), Cell(TextMinusFive), Cell(TextGarbage)),
     IncomeRow(Cell(<<" ">>), Cell(TextJob), Cell(TextFive), Cell(IsoText(2023, 2, 1)))}

RawExpenseRows ==
    {ExpenseRow(Absent, Absent, Absent, Absent, Absent),
     ExpenseRow(Cell(<<>>), Cell(<<>>), Cell(TextGarbage), Cell(TextGarbage), Cell(<<>>)),
     ExpenseRow(Cell(TextAl), Cell(TextFoodNote), Cell(TextPrice),
                Cell(IsoText(2023, 12, 31)), Cell(TextNote)),
     ExpenseRow(Cell(TextAl), Cell(TextFood), Cell(TextFive), Cell(TextGarbage), Absent)}

UploadRaw ==
    \E incomeFile \in Files(RawIncomeRows, MaxRows),
       expenseFile \in Files(RawExpenseRows, MaxRows) :
        HandleUpload(incomeFile, expenseFile)

InitNormalize == InitSession /\ tz \in {-300, 0, 330}

NextNormalize == UploadRaw

SpecNormalize == InitNormalize /\ [][NextNormalize]_vars

----
(* Categorical grouping and ranking.  The rows differ in category (blank,
   a name, a name made of digits) and in amount. *)

CategoryIncomeRows ==
    {IncomeRow(Cell(TextAl), Absent, Cell(TextFive), Cell(IsoText(2023, 2, 1))),
     IncomeRow(Cell(TextAl), Cell(TextJob), Cell(TextSeven), Cell(IsoText(2023, 2, 1)))}

CategoryExpenseRows ==
    {ExpenseRow(Cell(TextAl), c, a, Cell(IsoText(2023, 2, 1)), Absent) :
        c \in {Cell(TextFood), Cell(TextTen)}, a \in {Cell(TextFive), Cell(TextSeven)}}
    \cup {ExpenseRow(Cell(TextAl), Absent, Cell(TextFive), Cell(IsoText(2023, 2, 1)), Absent),
          ExpenseRow(Cell(TextAl), Cell(ProtoKey), Cell(TextSeven), Cell(IsoText(2023, 2, 1)),
                     Absent)}

UploadCategories ==
    \E incomeFile \in Files(CategoryIncomeRows, MaxRows),
       expenseFile \in Files(CategoryExpenseRows, MaxRows) :
        HandleUpload(incomeFile, expenseFile)

GroupExpensesByCategory ==
    /\ view' = [op |-> "groupExpensesByCategory",
                result |-> groupExpensesByCategory(expenseData)]
    /\ UNCHANGED session

GroupIncomeBySource ==
    /\ view' = [op |-> "groupIncomeBySource", result |-> groupIncomeBySource(incomeData)]
    /\ UNCHANGED session

\* ExpensePieChart hands a key of its grouping to handleCategoryClick,
\* which filters the collection by it
FilterExpensesByCategory ==
    \E category \in {e.k : e \in {groupExpensesByCategory(expenseData)[i] :
                                     i \in 1..Len(groupExpensesByCategory(expenseData))}} :
        /\ view' = [op |-> "filterExpensesByCategory", category |-> category,
                    result |-> filterExpensesByCategory(expenseData, category)]
        /\ UNCHANGED session

FilterIncomeBySource ==
    \E source \in {e.k : e \in {groupIncomeBySource(incomeData)[i] :
                                   i \in 1..Len(groupIncomeBySource(incomeData))}} :
        /\ view' = [op |-> "filterIncomeBySource", source |-> source,
                    result |-> filterIncomeBySource(incomeData, source)]
        /\ UNCHANGED session

GetTopSpendingCategories ==
    \E limit \in 0..MaxLimit :
        /\ view' = [op |-> "getTopSpendingCategories", limit |-> limit,
                    result |-> getTopSpendingCategories(expenseData, limit)]
        /\ UNCHANGED session

InitCategories == InitSession /\ tz = 330

NextCategories ==
    \/ UploadCategories
    \/ GroupExpensesByCategory
    \/ GroupIncomeBySource
    \/ FilterExpensesByCategory
    \/ FilterIncomeBySource
    \/ GetTopSpendingCategories

SpecCategories == InitCategories /\ [][NextCategories]_vars

----
(* Totals and groupings of amounts of very different magnitude: whole
   amounts, the largest amount whose digits a Number keeps, and the
   smallest fraction. *)

\* all nines, SignificantDigits of them, the last MaxLen after the point
TextLargest ==
    NatToString(Pow10(SignificantDigits - MaxLen) - 1) \o <<".">> \o [i \in 1..MaxLen |-> "9"]

\* four units of the last fraction digit
TextSmallest == <<".">> \o [i \in 1..(MaxLen - 1) |-> "0"] \o <<"4">>

TotalsAmounts == {Cell(TextFive), Cell(TextSeven), Cell(TextLargest), Cell(TextSmallest)}

TotalsIncomeRows ==
    {IncomeRow(Cell(TextAl), s, a, Cell(IsoText(2023, 2, 1))) :
        s \in {Cell(TextJob), Absent}, a \in TotalsAmounts}

TotalsExpenseRows ==
    {ExpenseRow(Cell(TextAl), c, a, Cell(IsoText(2023, 2, 1)), Absent) :
        c \in {Cell(TextFood), Cell(TextTen)}, a \in TotalsAmounts}

\* one file is selected, of up to three rows
UploadTotals ==
    \/ \E incomeFile \in Files(TotalsIncomeRows, MaxRows + 1) : HandleUpload(incomeFile, NoFile)
    \/ \E expenseFile \in Files(TotalsExpenseRows, MaxRows + 1) : HandleUpload(NoFile, expenseFile)

InitTotals == InitSession /\ tz = 0

NextTotals ==
    \/ UploadTotals
    \/ GroupExpensesByCategory
    \/ GroupIncomeBySource

SpecTotals == InitTotals /\ [][NextTotals]_vars

----
(* Time series.  The rows differ in date: months below and above 10 of
   one year, a later year, and years of three and of four digits. *)

SeriesIncomeRows ==
    {IncomeRow(Cell(TextAl), Cell(TextJob), Cell(TextSeven), Cell(IsoText(2023, 2, 10))),
     IncomeRow(Cell(TextAl), Cell(TextJob), Cell(TextFive), Cell(IsoText(1000, 1, 1)))}

SeriesExpenseRows ==
    {ExpenseRow(Cell(TextAl), Cell(TextFood), Cell(TextFive), Cell(date), Absent) :
        date \in {IsoText(2023, 2, 10), IsoText(2023, 10, 5), IsoText(2024, 1, 15),
                  IsoText(999, 12, 31)}}
    \cup {ExpenseRow(Cell(TextAl), Cell(TextFood), Cell(TextSeven),
                     Cell(IsoText(2023, 10, 5)), Absent)}

\* the years a chart is asked about
ChartYears == {2023, 2024}

UploadSeries ==
    \E incomeFile \in Files(SeriesIncomeRows, MaxRows),
       expenseFile \in Files(SeriesExpenseRows, MaxRows) :
        HandleUpload(incomeFile, expenseFile)

GetCashFlowData ==
    /\ view' = [op |-> "getCashFlowData", result |-> getCashFlowData(incomeData, expenseData)]
    /\ UNCHANGED session

RenderCashFlowChart ==
    /\ view' = [op |-> "CashFlowChart", chartData |-> CashFlowChartData(incomeData, expenseData)]
    /\ UNCHANGED session

RenderMonthlyTrendChart ==
    /\ view' = [op |-> "MonthlyTrendChart",
                chartData |-> MonthlyTrendChartData(incomeData, expenseData)]
    /\ UNCHANGED session

GetYearlySummary ==
    /\ view' = [op |-> "getYearlySummary", result |-> getYearlySummary(incomeData, expenseData)]
    /\ UNCHANGED session

RenderCumulativeSavingsChart ==
    \E year \in ChartYears :
        /\ view' = [op |-> "CumulativeSavingsChart", year |-> year,
                    chartData |-> CumulativeSavingsChartData(incomeData, expenseData, year)]
        /\ UNCHANGED session

InitSeries == InitSession /\ tz \in {-300, 330}

NextSeries ==
    \/ UploadSeries
    \/ GetCashFlowData
    \/ RenderCashFlowChart
    \/ RenderMonthlyTrendChart
    \/ GetYearlySummary
    \/ RenderCumulativeSavingsChart

SpecSeries == InitSeries /\ [][NextSeries]_vars

----
(* Text cleaning on its own, applied once and once more to its result.
   The texts are made of a letter and the characters of the parenthesis
   rule, plus links within links. *)

CleanAlphabet == {"a", "(", "%", ")"}

TextNestedLink == <<"[", "[", "a", "]", "(", "b", ")", "]", "(", "c", ")">>
TextLinkInLabel == <<"[", "a", "[", "b", "]", "(", "c", ")", "]", "(", "d", ")">>

CleanTexts ==
    StringsUpTo(CleanAlphabet, MaxText) \cup {TextJobLink, TextNestedLink, TextLinkInLabel}

CleanMarkdownLinks ==
    /\ view.op = "text"
    /\ view' = [op |-> "cleanMarkdownLinks", text |-> view.text,
                result |-> cleanMarkdownLinks(Cell(view.text))]
    /\ UNCHANGED session

CleanMarkdownLinksAgain ==
    /\ view.op = "cleanMarkdownLinks"
    /\ view' = [op |-> "cleanMarkdownLinks twice", text |-> view.text, once |-> view.result,
                result |-> cleanMarkdownLinks(Cell(view.result))]
    /\ UNCHANGED session

InitClean ==
    /\ incomeData = <<>> /\ expenseData = <<>> /\ dataLoaded = FALSE
    /\ now = ClockStart /\ upload = IdleUpload
    /\ view \in {[op |-> "text", text |-> t] : t \in CleanTexts}
    /\ tz = 0

NextClean ==
    \/ CleanMarkdownLinks
    \/ CleanMarkdownLinksAgain

SpecClean == InitClean /\ [][NextClean]_vars

----
(* Filters, search and notable transactions.  The rows differ in date, in
   the case of their texts, in which text fields they fill and in amount,
   two of them sharing an amount. *)

TextJobUpper == <<"J", "O", "B">>

FilterIncomeRows ==
    {IncomeRow(Cell(TextAl), Cell(TextJob), Cell(TextSeven), Cell(IsoText(2023, 2, 10))),
     IncomeRow(Absent, Cell(TextJobLink), Cell(TextFive), Cell(IsoText(2023, 10, 5)))}

FilterExpenseRows ==
    {ExpenseRow(Cell(TextAl), Cell(TextFood), Cell(TextFive), Cell(IsoText(2023, 2, 10)), Absent),
     ExpenseRow(Cell(TextAl), Cell(TextTen), Cell(TextSeven), Cell(IsoText(2023, 10, 5)),
                Cell(TextJobUpper)),
     ExpenseRow(Absent, Cell(TextFood), Cell(TextFive), Cell(IsoText(2024, 1, 15)), Absent)}

\* the instants that bound a range: the midnights the rows are dated at
RangeBounds ==
    {DateFromString(IsoText(2023, 2, 10)).t, DateFromString(IsoText(2023, 10, 5)).t,
     DateFromString(IsoText(2024, 1, 15)).t}

\* what is searched for: texts in either case, digits, and the empty text
Queries == {<<>>, <<"a", "l">>, TextJobUpper, TextJob, <<"O", "o">>, TextFive, TextSeven}

UploadFilters ==
    \E incomeFile \in Files(FilterIncomeRows, MaxRows),
       expenseFile \in Files(FilterExpenseRows, MaxRows) :
        HandleUpload(incomeFile, expenseFile)

FilterByDateRange ==
    \E startDate \in RangeBounds, endDate \in RangeBounds :
        /\ view' = [op |-> "filterByDateRange", data |-> expenseData,
                    startDate |-> startDate, endDate |-> endDate,
                    result |-> filterByDateRange(expenseData, startDate, endDate)]
        /\ UNCHANGED session

SearchData ==
    \E data \in {incomeData, expenseData}, query \in Queries :
        /\ view' = [op |-> "searchData", data |-> data, query |-> query,
                    result |-> searchData(data, query)]
        /\ UNCHANGED session

GetNotableTransactions ==
    \E limit \in 0..MaxLimit :
        /\ view' = [op |-> "getNotableTransactions", limit |-> limit,
                    result |-> getNotableTransactions(incomeData, expenseData, limit)]
        /\ incomeData' = SortedCopy(incomeData).data
        /\ expenseData' = SortedCopy(expenseData).data
        /\ UNCHANGED <<dataLoaded, now, tz, upload>>

InitFilters == InitSession /\ tz = 0

NextFilters ==
    \/ UploadFilters
    \/ FilterByDateRange
    \/ SearchData
    \/ GetNotableTransactions

SpecFilters == InitFilters /\ [][NextFilters]_vars

----
(* Every aggregation and view builder, called in any order on the
   collections of the session *)

ViewsExpenseRows ==
    {ExpenseRow(Cell(TextAl), Cell(TextFood), Cell(TextFive), Cell(IsoText(2023, 2, 10)), Absent),
     ExpenseRow(Cell(TextAl), Cell(ProtoKey), Cell(TextSeven), Cell(IsoText(2023, 10, 5)), Absent)}

UploadViews ==
    \E incomeFile \in Files(FilterIncomeRows, MaxRows),
       expenseFile \in Files(ViewsExpenseRows, MaxRows) :
        HandleUpload(incomeFile, expenseFile)

CalculateTotals ==
    /\ view' = [op |-> "calculateTotals",
                totalIncome |-> calculateTotalIncome(incomeData),
                totalExpenses |-> calculateTotalExpenses(expenseData)]
    /\ UNCHANGED session

GroupByMonth ==
    \E data \in {incomeData, expenseData} :
        /\ view' = [op |-> "groupByMonth", data |-> data, result |-> groupByMonth(data)]
        /\ UNCHANGED session

GroupByDate ==
    \E data \in {incomeData, expenseData} :
        /\ view' = [op |-> "groupByDate", data |-> data, result |-> groupByDate(data)]
        /\ UNCHANGED session

\* DailySpendingCalendar calls it with the default range: from the start of
\* the current year to the current instant
GetDailySpendingData ==
    \E startDate \in RangeBounds \cup {StartOfYear} :
        /\ view' = [op |-> "getDailySpendingData", data |-> expenseData,
                    startDate |-> startDate, endDate |-> now,
                    result |-> getDailySpendingData(expenseData, startDate, now)]
        /\ UNCHANGED session

InitViews == InitSession /\ tz = 0

NextViews ==
    \/ UploadViews
    \/ CalculateTotals
    \/ GroupExpensesByCategory
    \/ GroupIncomeBySource
    \/ GroupByMonth
    \/ GroupByDate
    \/ FilterExpensesByCategory
    \/ FilterIncomeBySource
    \/ FilterByDateRange
    \/ SearchData
    \/ GetTopSpendingCategories
    \/ GetNotableTransactions
    \/ GetCashFlowData
    \/ GetYearlySummary
    \/ GetDailySpendingData

SpecViews == InitViews /\ [][NextViews]_vars

----
(* The day buckets away from UTC: expenses dated by day and by local time,
   read in three time zones *)

TextMorning == <<"T", "0", "2", ":", "0", "0">>
TextEvening == <<"T", "2", "2", ":", "0", "0">>

CalendarExpenseRows ==
    {ExpenseRow(Cell(TextAl), Cell(TextFood), Cell(TextFive), Cell(IsoText(2024, 2, 1)), Absent),
     ExpenseRow(Cell(TextAl), Cell(TextFood), Cell(TextSeven),
                Cell(IsoText(2024, 2, 1) \o TextMorning), Absent),
     ExpenseRow(Cell(TextAl), Cell(TextFood), Cell(TextTen),
                Cell(IsoText(2024, 1, 31) \o TextEvening), Absent)}

UploadCalendar ==
    \E expenseFile \in Files(CalendarExpenseRows, MaxRows) :
        HandleUpload(NoFile, expenseFile)

\* the calendar card is rendered
DailySpendingCalendar ==
    /\ view' = [op |-> "DailySpendingCalendar", data |-> expenseData,
                spendingMap |-> spendingMap(expenseData)]
    /\ UNCHANGED session

InitCalendar == InitSession /\ tz \in {-300, 0, 330}

NextCalendar ==
    \/ UploadCalendar
    \/ GroupByMonth
    \/ GroupByDate
    \/ GetDailySpendingData
    \/ DailySpendingCalendar

SpecCalendar == InitCalendar /\ [][NextCalendar]_vars

----
(* The dashboard over collections uploaded at once: every order of year
   and month selections, search edits, category clicks, Clear and Reset *)

DashboardIncomeRows ==
    {IncomeRow(Cell(TextAl), Cell(TextJob), Cell(TextSeven), Cell(IsoText(2023, 2, 10)))}

DashboardExpenseRows ==
    {ExpenseRow(Cell(TextAl), Cell(TextFood), Cell(TextFive), Cell(IsoText(2023, 2, 10)), Absent),
     ExpenseRow(Absent, Cell(TextTen), Cell(TextSeven), Cell(IsoText(2024, 1, 15)),
                Cell(TextJobUpper))}

\* what is typed into the search box
DashboardQueries == {<<>>, <<"a", "l">>, TextJob}

UploadDashboard ==
    \E incomeFile \in Files(DashboardIncomeRows, MaxRows),
       expenseFile \in Files(DashboardExpenseRows, MaxRows) :
        HandleUpload(incomeFile, expenseFile)

\* Index renders FinanceDashboard once dataLoaded is set
MountDashboard ==
    \E version \in {1, 2} :
        /\ dataLoaded
        /\ view.op # "FinanceDashboard"
        /\ view' = FinanceDashboard(version, incomeData, expenseData)
        /\ UNCHANGED session

\* a slice of the pie chart is clicked
ClickCategory ==
    /\ view.op = "FinanceDashboard"
    /\ \E category \in {e.k : e \in {groupExpensesByCategory(PieChartData(view, expenseData))[i] :
                              i \in 1..Len(groupExpensesByCategory(PieChartData(view, expenseData)))}} :
           view' = handleCategoryClick(view, expenseData, category)
    /\ UNCHANGED session

EditSearch ==
    /\ view.op = "FinanceDashboard"
    /\ \E query \in DashboardQueries \ {view.searchQuery} :
           view' = handleSearch(view, incomeData, expenseData, query)
    /\ UNCHANGED session

\* the years offered are those of the records
SelectYear ==
    /\ view.op = "FinanceDashboard"
    /\ \E value \in {TextAll}
                     \cup {NumberToString(incomeData[i].year) : i \in 1..Len(incomeData)}
                     \cup {NumberToString(expenseData[i].year) : i \in 1..Len(expenseData)} :
           view' = handleYearChange(view, incomeData, expenseData, value)
    /\ UNCHANGED session

\* of the twelve months offered, those of the records are selected
SelectMonth ==
    /\ view.op = "FinanceDashboard"
    /\ \E value \in {TextAll}
                     \cup {NumberToString(expenseData[i].month) : i \in 1..Len(expenseData)} :
           view' = handleMonthChange(view, incomeData, expenseData, value)
    /\ UNCHANGED session

\* the Clear button is shown while a category is selected
ClearCategory ==
    /\ view.op = "FinanceDashboard"
    /\ ~IsFalsy(view.selectedCategory)
    /\ view' = clearCategory(view, incomeData, expenseData)
    /\ UNCHANGED session

ResetFilters ==
    /\ view.op = "FinanceDashboard"
    /\ view' = resetFilters(view, incomeData, expenseData)
    /\ UNCHANGED session

InitDashboard == InitSession /\ tz = 0

NextDashboard ==
    \/ UploadDashboard
    \/ MountDashboard
    \/ ClickCategory
    \/ EditSearch
    \/ SelectYear
    \/ SelectMonth
    \/ ClearCategory
    \/ ResetFilters

SpecDashboard == InitDashboard /\ [][NextDashboard]_vars

----
(* The dashboard mounted while an upload is still going on: its props
   change when the second file has been parsed *)

\* the effect of version 2 runs after a render whose props differ from
\* those of the render it last ran for
PropsEffect ==
    /\ view.op = "FinanceDashboard" /\ view.version = 2
    /\ view.deps # [income |-> incomeData, expense |-> expenseData]
    /\ view' = propsEffect(view, incomeData, expenseData)
    /\ UNCHANGED session

InitMounted == InitSession /\ tz = 0

NextMounted ==
    \/ PressUpload
    \/ IncomeParsed
    \/ ExpenseParsed
    \/ ParseFailed
    \/ MountDashboard
    \/ PropsEffect

SpecMounted == InitMounted /\ [][NextMounted]_vars

----
(* The transactions tab: the table under the dashboard's year selection *)

\* one income of 2024, fifty expenses of 2023 and one of 2024
TableIncomeRows ==
    <<IncomeRow(Cell(TextAl), Cell(TextJob), Cell(TextSeven), Cell(IsoText(2024, 1, 15)))>>

TableExpenseRows ==
    [i \in 1..50 |->
        ExpenseRow(Cell(TextAl), Cell(TextFood), Cell(TextFive),
                   Cell(IsoText(2023, 1 + ((i - 1) \div 25), 1 + ((i - 1) % 25))), Absent)]
    \o <<ExpenseRow(Cell(TextJob), Cell(TextFood), Cell(TextSeven),
                    Cell(IsoText(2024, 1, 20)), Absent)>>

TableQueries == {<<>>, TextJob}

\* the props version 2 of the dashboard hands to the table under a year
TableProps(year) ==
    LET d == handleYearChange(FinanceDashboard(2, incomeData, expenseData),
                              incomeData, expenseData, year)
    IN  [income |-> d.filteredIncomes, expense |-> d.filteredExpenses]

TableYears == {TextAll, NumberToString(2023), NumberToString(2024)}

\* the transactions tab is opened
MountTable ==
    /\ view.op = "none"
    /\ \E year \in TableYears :
           \E props \in {TableProps(year)} :
               Render(TransactionTable(props.income, props.expense))
    /\ UNCHANGED session

\* the dashboard's year selection changes while the table is shown
TablePropsChange ==
    /\ view.op = "TransactionTable"
    /\ \E year \in TableYears :
           \E props \in {TableProps(year)} :
               /\ <<props.income, props.expense>> # <<view.incomeData, view.expenseData>>
               /\ Render(propsChanged(view, props.income, props.expense))
    /\ UNCHANGED session

EditTableSearch ==
    /\ view.op = "TransactionTable"
    /\ \E value \in TableQueries \ {view.searchQuery} :
           Render(setSearchQuery(view, value))
    /\ UNCHANGED session

SelectType ==
    /\ view.op = "TransactionTable"
    /\ \E value \in {TextAll, TextIncome, TextExpense} \ {view.typeFilter} :
           Render(setTypeFilter(view, value))
    /\ UNCHANGED session

ClickSortHeader ==
    /\ view.op = "TransactionTable"
    /\ \E field \in ClickedFields : Render(handleSort(view, field))
    /\ UNCHANGED session

\* the page buttons are shown with more than one page; Previous is disabled
\* on page 1
ClickPrevious ==
    /\ view.op = "TransactionTable"
    /\ totalPages(view) > 1 /\ view.currentPage # 1
    /\ Render(previousPage(view))
    /\ UNCHANGED session

\* Next is disabled on the last page
ClickNext ==
    /\ view.op = "TransactionTable"
    /\ totalPages(view) > 1 /\ view.currentPage # totalPages(view)
    /\ Render(nextPage(view))
    /\ UNCHANGED session

\* the button "1", shown with more than five pages beyond page 1
ClickFirstPage ==
    /\ view.op = "TransactionTable"
    /\ totalPages(view) > 5 /\ view.currentPage > 1
    /\ Render(setCurrentPage(view, 1))
    /\ UNCHANGED session

\* the button of the last page, shown with more than five pages before it
ClickLastPage ==
    /\ view.op = "TransactionTable"
    /\ totalPages(view) > 5 /\ view.currentPage < totalPages(view)
    /\ Render(setCurrentPage(view, totalPages(view)))
    /\ UNCHANGED session

InitTable ==
    /\ tz = 0
    /\ now = ClockStart
    /\ incomeData = processIncomeData(TableIncomeRows)
    /\ expenseData = processExpenseData(TableExpenseRows)
    /\ dataLoaded = TRUE
    /\ view = NoView
    /\ upload = IdleUpload

NextTable ==
    \/ MountTable
    \/ TablePropsChange
    \/ EditTableSearch
    \/ SelectType
    \/ ClickSortHeader
    \/ ClickPrevious
    \/ ClickNext
    \/ ClickFirstPage
    \/ ClickLastPage

SpecTable == InitTable /\ [][NextTable]_vars

----
(* The report of collections whose totals are zero, positive or negative *)

TextZero == <<"0">>

ReportIncomeRows ==
    {IncomeRow(Cell(TextAl), Cell(TextJob), a, Cell(IsoText(2023, 2, 1))) :
        a \in {Cell(TextZero), Cell(TextSeven)}}

ReportExpenseRows ==
    {ExpenseRow(Cell(TextAl), c, a, Cell(IsoText(2023, 2, 1)), Absent) :
        c \in {Cell(TextFood), Cell(TextTen)},
        a \in {Cell(TextZero), Cell(TextFive), Cell(TextMinusFive)}}

UploadReport ==
    \E incomeFile \in Files(ReportIncomeRows, MaxRows),
       expenseFile \in Files(ReportExpenseRows, MaxRows) :
        HandleUpload(incomeFile, expenseFile)

\* FinanceDashboard.handleGenerateReport
GenerateReport ==
    /\ dataLoaded
    /\ view' = [op |-> "generateReport", report |-> generateReport(incomeData, expenseData)]
    /\ UNCHANGED session

InitReport == InitSession /\ tz = 0

NextReport ==
    \/ UploadReport
    \/ GenerateReport

SpecReport == InitReport /\ [][NextReport]_vars

-----------------------------------------------------------------------------
(* Properties *)

\* the numeric pair (year, monthNumber) of a month-bucket key "<year>-<month>"
KeyPeriod(key) ==
    LET parts == Split(key, "-")
    IN  [year |-> StringToNumber(parts[1]), month |-> StringToNumber(parts[2])]

\* (year, month) of p is strictly before (year, month) of q
PeriodBefore(p, q) == p.year < q.year \/ (p.year = q.year /\ p.month < q.month)

C2_AmountNonNegative ==
    view.op = "parseCurrency" => view.result >= 0

\* C3: the entries of getCashFlowData are in strictly increasing order of
\* the numeric pair (year, monthNumber) of their bucket keys.
C3_CashFlowChronological ==
    view.op = "getCashFlowData" =>
        \A i \in 1..(Len(view.result) - 1) :
            PeriodBefore(KeyPeriod(view.result[i].date), KeyPeriod(view.result[i + 1].date))

\* C4: the periods of MonthlyTrendChart's chartData are in strictly
\* increasing (year, month) order.
C4_TrendChronological ==
    view.op = "MonthlyTrendChart" =>
        \A i \in 1..(Len(view.chartData) - 1) :
            PeriodBefore(view.chartData[i].month, view.chartData[i + 1].month)

\* C5: for every key k of the grouping (the fallback key included), the
\* Amounts of the records the filter keeps for k sum to the bucket of k.
C5_FilterSumEqualsBucket ==
    /\ view.op = "filterExpensesByCategory" =>
          SumAmounts(view.result)
              = GetOrZero(groupExpensesByCategory(expenseData), view.category)
    /\ view.op = "filterIncomeBySource" =>
          SumAmounts(view.result) = GetOrZero(groupIncomeBySource(incomeData), view.source)

\* the sum of the values of all buckets of a grouping
RECURSIVE SumValues(_)
SumValues(obj) ==
    IF obj = <<>> THEN 0
    ELSE NumberAdd(SumValues(SubSeq(obj, 1, Len(obj) - 1)), obj[Len(obj)].v)

\* C6: for every collection, the bucket values of groupExpensesByCategory
\* (groupIncomeBySource) sum to calculateTotalExpenses
\* (calculateTotalIncome) of the collection.
C6_BucketsSumToTotal ==
    /\ view.op = "groupExpensesByCategory" =>
          SumValues(view.result) = calculateTotalExpenses(expenseData)
    /\ view.op = "groupIncomeBySource" =>
          SumValues(view.result) = calculateTotalIncome(incomeData)

\* the index of the first record of the collection that falls in a category
FirstSeen(category) ==
    CHOOSE i \in 1..Len(expenseData) :
        /\ CategoryKey(expenseData[i]) = category
        /\ \A j \in 1..(i - 1) : CategoryKey(expenseData[j]) # category

\* C7: categories with equal totals appear in getTopSpendingCategories in
\* the order in which they were first met in the collection, whatever
\* their names.
C7_TiesInEncounterOrder ==
    view.op = "getTopSpendingCategories" =>
        \A i, j \in 1..Len(view.result) :
            (i < j /\ view.result[i].amount = view.result[j].amount)
                => FirstSeen(view.result[i].category) < FirstSeen(view.result[j].category)

\* C8: getTopSpendingCategories returns at most limit entries, in order of
\* non-increasing amount, and no omitted category has a larger total than a
\* returned one.
C8_TopCategoriesRanked ==
    view.op = "getTopSpendingCategories" =>
        LET top == view.result
            categories == {CategoryKey(expenseData[i]) : i \in 1..Len(expenseData)}
            Total(key) == SumAmounts(SelectSeq(expenseData, LAMBDA item : CategoryKey(item) = key))
            Returned(key) == \E i \in 1..Len(top) : top[i].category = key
        IN  /\ Len(top) <= view.limit
            /\ \A i \in 1..(Len(top) - 1) : top[i].amount >= top[i + 1].amount
            /\ \A key \in categories :
                   ~Returned(key) => \A i \in 1..Len(top) : Total(key) <= top[i].amount

\* the Amounts of the records of data for which year (and month, unless it
\* is -1) are the given ones, added up
RECURSIVE SumOfPeriod(_, _, _)
SumOfPeriod(data, year, month) ==
    IF data = <<>> THEN 0
    ELSE IF data[Len(data)].year = year /\ month \in {-1, data[Len(data)].month}
         THEN NumberAdd(SumOfPeriod(SubSeq(data, 1, Len(data) - 1), year, month),
                        data[Len(data)].Amount)
         ELSE SumOfPeriod(SubSeq(data, 1, Len(data) - 1), year, month)

YearsPresent ==
    {incomeData[i].year : i \in 1..Len(incomeData)}
        \cup {expenseData[i].year : i \in 1..Len(expenseData)}

\* C9: getYearlySummary has exactly one row per year present in either
\* collection, in ascending numeric order of year, with the sums of the
\* Amounts of that year (0 for a side without records).
C9_YearlySummary ==
    view.op = "getYearlySummary" =>
        /\ Len(view.result) = Cardinality(YearsPresent)
        /\ \A i \in 1..Len(view.result) :
               /\ view.result[i].year \in YearsPresent
               /\ view.result[i].income = SumOfPeriod(incomeData, view.result[i].year, -1)
               /\ view.result[i].expenses = SumOfPeriod(expenseData, view.result[i].year, -1)
        /\ \A i \in 1..(Len(view.result) - 1) :
               view.result[i].year < view.result[i + 1].year

\* C10: the cumulative savings series of year Y has 12 entries, January to
\* December; entry i has the income minus the expenses of month i of Y and
\* the running sum of these from January on; other years do not count.
C10_CumulativeSavings ==
    view.op = "CumulativeSavingsChart" =>
        /\ Len(view.chartData) = 12
        /\ \A n \in 1..12 :
               /\ view.chartData[n].month = n - 1
               /\ view.chartData[n].monthlySavings
                      = NumberSub(SumOfPeriod(incomeData, view.year, n - 1),
                                  SumOfPeriod(expenseData, view.year, n - 1))
               /\ view.chartData[n].cumulativeSavings
                      = NumberAdd(IF n = 1 THEN 0 ELSE view.chartData[n - 1].cumulativeSavings,
                                  view.chartData[n].monthlySavings)

\* the series of 2023 was built from income and expenses of two months of
\* 2023 while the collection also holds a record of another year
C10_Witness ==
    /\ view.op = "CumulativeSavingsChart" /\ view.year = 2023
    /\ view.chartData[2].monthlySavings > 0
    /\ view.chartData[10].monthlySavings < 0
    /\ view.chartData[12].cumulativeSavings
           = view.chartData[2].monthlySavings + view.chartData[10].monthlySavings
    /\ \E i \in 1..Len(incomeData) : incomeData[i].year # 2023

\* the (year, 1-based month) pairs in which a record of either collection falls
PeriodsPresent ==
    {[year |-> incomeData[i].year, month |-> incomeData[i].month + 1] : i \in 1..Len(incomeData)}
        \cup {[year |-> expenseData[i].year, month |-> expenseData[i].month + 1] :
                  i \in 1..Len(expenseData)}

\* the bucket key "<year>-<month>" of a period
PeriodKey(p) == NumberToString(p.year) \o <<"-">> \o NumberToString(p.month)

\* income minus expenses of a period, a side without records counting as 0
PeriodBalance(p) ==
    NumberSub(SumOfPeriod(incomeData, p.year, p.month - 1),
              SumOfPeriod(expenseData, p.year, p.month - 1))

\* C11: getCashFlowData and the monthly trend series have exactly one entry
\* per month in which a record of either collection falls and none for any
\* other month; the entry's key is "<year>-<month + 1>" of the records'
\* local date and its cashFlow (savings) is the income of that month minus
\* the expenses of that month.
C11_OneEntryPerMonthBucket ==
    /\ view.op = "getCashFlowData" =>
          /\ Len(view.result) = Cardinality(PeriodsPresent)
          /\ \A p \in PeriodsPresent :
                 \E i \in 1..Len(view.result) :
                     /\ view.result[i].date = PeriodKey(p)
                     /\ view.result[i].cashFlow = PeriodBalance(p)
    /\ view.op = "MonthlyTrendChart" =>
          /\ Len(view.chartData) = Cardinality(PeriodsPresent)
          /\ \A p \in PeriodsPresent :
                 \E i \in 1..Len(view.chartData) :
                     /\ view.chartData[i].month
                            = [valid |-> TRUE, year |-> p.year, month |-> p.month - 1]
                     /\ view.chartData[i].savings = PeriodBalance(p)

\* a month with income and expenses and a month with expenses only, the
\* local month of one record differing from the month written in its row
C11_Witness ==
    /\ view.op = "getCashFlowData" /\ Len(view.result) = 2
    /\ Len(incomeData) = 2 /\ Len(expenseData) = 1
    /\ incomeData[2].year = 999 /\ incomeData[2].month = 11
    /\ expenseData[1].year = 999
    /\ \E i \in 1..2 : view.result[i].cashFlow = 0
    /\ \E i \in 1..2 : view.result[i].cashFlow > 0

\* C12: within one run of handleUpload nothing is normalised, handed to the
\* page or shown by the dashboard before every file supplied in that run
\* has been parsed: while the expense file is still being parsed the run
\* has delivered no collection, the page holds the collections it held
\* when the run began, and no dashboard has been computed.
C12_NothingBeforeAllParsed ==
    upload.pc = "parseExpense" =>
        /\ upload.delivered = {}
        /\ incomeData = upload.seen.income
        /\ ~dataLoaded
        /\ view.op # "FinanceDashboard"

\* C13: in a run of handleUpload in which a parse failed, no collection was
\* normalised and handed over, and the page holds the collections it held
\* when the run began, whichever file failed.
C13_FailedUploadChangesNothing ==
    upload.outcome = "failed" =>
        /\ upload.delivered = {}
        /\ incomeData = upload.seen.income
        /\ expenseData = upload.seen.expense

\* C14: in the report, a percentage whose denominator is zero reads
\* "N/A": the Savings Rate when the total income is 0, and the Percentage
\* of every top-category row when the total expenses are 0.
C14_ZeroDenominatorNotApplicable ==
    view.op = "generateReport" =>
        /\ view.report.totalIncome = 0 => view.report.savingsRate = NotApplicable
        /\ view.report.totalExpenses = 0 =>
               \A i \in 1..Len(view.report.topCategoriesData) :
                   view.report.topCategoriesData[i].percentage = NotApplicable
        /\ \A i \in 1..Len(view.report.yearlyData) :
               view.report.yearlyData[i].income = 0
                   => view.report.yearlyData[i].savingsRate = NotApplicable

\* C15: cleanMarkdownLinks is idempotent: cleaning the cleaned text gives
\* the cleaned text, also for nested bracket and parenthesis sequences.
C15_CleanIdempotent ==
    view.op = "cleanMarkdownLinks twice" => view.result = view.once

\* arr holds exactly the elements of data at the indices kept, in the order
\* of data
IsSelection(arr, data, kept) ==
    /\ Len(arr) = Cardinality(kept)
    /\ \A i \in kept : arr[Cardinality({j \in kept : j <= i})] = data[i]

\* C16: filterByDateRange returns exactly the records whose Date d has
\* start <= d <= end, both bounds included, in their input order.
C16_DateRangeInclusive ==
    view.op = "filterByDateRange" =>
        IsSelection(view.result, view.data,
                    {i \in 1..Len(view.data) :
                        /\ view.startDate <= view.data[i].Date
                        /\ view.data[i].Date <= view.endDate})

\* of two records, the one at the start of the range and the one at its end
\* were kept
C16_Witness ==
    /\ view.op = "filterByDateRange" /\ view.startDate < view.endDate
    /\ Len(view.data) = 2 /\ Len(view.result) = 2
    /\ view.result[1].Date = view.endDate
    /\ view.result[2].Date = view.startDate

\* the text fields of the records of the two shapes
TextFieldsOf(item) ==
    IF "Categories" \in DOMAIN item
    THEN {item.Name, item.Categories, item.Expenses, item.Notes, item.formattedDate}
    ELSE {item.Name, item.Sources, item.formattedDate}

\* text contains part when letters are compared without regard to case
ContainsIgnoringCase(text, part) ==
    \E i \in 0..(Len(text) - Len(part)) :
        \A k \in 1..Len(part) :
            toLowerCase(<<text[i + k]>>) = toLowerCase(<<part[k]>>)

\* C17: searchData returns exactly the records of which some text field
\* (Name, Sources or Categories, Expenses, Notes, formattedDate; no number
\* and no Date) contains the query, letters compared without regard to
\* case, in their input order.
C17_SearchAnyTextField ==
    view.op = "searchData" =>
        IsSelection(view.result, view.data,
                    {i \in 1..Len(view.data) :
                        \E text \in TextFieldsOf(view.data[i]) :
                            ContainsIgnoringCase(text, view.query)})

\* a query in lower case found the record whose Notes hold it in upper
\* case and not the record whose Amount alone is written with its digit
C17_Witness ==
    /\ view.op = "searchData" /\ view.query = TextJob
    /\ Len(view.data) = 2 /\ Len(view.result) = 1
    /\ view.result[1] = view.data[2]
    /\ view.result[1].Notes = TextJobUpper

\* the place of record i of data when data is ordered by non-increasing
\* Amount, records of equal Amount keeping their order
AmountRank(data, i) ==
    1 + Cardinality({j \in 1..Len(data) :
                        \/ data[j].Amount > data[i].Amount
                        \/ (data[j].Amount = data[i].Amount /\ j < i)})

IsTopByAmount(top, data, limit) ==
    /\ Len(top) = Min(limit, Len(data))
    /\ \A i \in 1..Len(data) : AmountRank(data, i) <= limit => top[AmountRank(data, i)] = data[i]

\* C18: each side of getNotableTransactions holds the first limit records
\* of its collection ordered by non-increasing Amount, records of equal
\* Amount in input order; its length is min(limit, size of the collection)
\* whatever the other side is.
C18_NotableTransactions ==
    view.op = "getNotableTransactions" =>
        /\ IsTopByAmount(view.result.topIncome, incomeData, view.limit)
        /\ IsTopByAmount(view.result.topExpenses, expenseData, view.limit)

\* the larger expense came first although it was uploaded last, two
\* incomes were cut to one, and the sides differ in length
C18_Witness ==
    /\ view.op = "getNotableTransactions" /\ view.limit = 2
    /\ Len(expenseData) = 2 /\ Len(incomeData) = 1
    /\ expenseData[1].Amount < expenseData[2].Amount
    /\ view.result.topExpenses = <<expenseData[2], expenseData[1]>>
    /\ view.result.topIncome = incomeData

\* the text of a cell without the currency symbols and the commas
WithoutSymbols(cell) ==
    SelectSeq(cell.s, LAMBDA c : c \notin {"₹", "$", "€", "£", "¥", ","})

\* C19: parseCurrency never throws, whatever the raw value (absent, a text
\* or not a text); it returns 0 for an absent or empty value and for a text
\* with no digit, and the number written by the digits left once the
\* symbols and commas are removed: 1200.50 for "₹1,200.50".
C19_ParseCurrencyTotal ==
    view.op = "parseCurrency" =>
        /\ ~view.threw
        /\ view.amountStr \in {Absent, Cell(<<>>), Cell(TextAbc)} => view.result = 0
        /\ view.amountStr = Cell(TextRupees) => view.result = 1200 * AmountScale + AmountScale \div 2
        /\ (/\ IsString(view.amountStr)
            /\ WithoutSymbols(view.amountStr) # <<>>
            /\ AllDigits(WithoutSymbols(view.amountStr)))
           => view.result = DigitsToNat(WithoutSymbols(view.amountStr)) * AmountScale

\* the calendar day the instant falls on where the session runs
LocalDay(instant) == CivilFromDays((instant + tz) \div MinutesPerDay)

\* what the record made of a row is to carry
DateFieldsOf(record, row) ==
    LET parsed == DateFromString(row.Date.s)
    IN  /\ record.Date = IF ~row.Date.absent /\ parsed.valid THEN parsed.t ELSE now
        /\ record.month \in 0..11
        /\ record.month = LocalDay(record.Date).m - 1
        /\ record.year = LocalDay(record.Date).y

\* C20: the Date of every normalised record is the instant its raw text
\* denotes, or the current instant when the text is absent or denotes none;
\* its month is the local month index of that Date, within 0..11, and its
\* year the local calendar year of that Date.
C20_RecordDates ==
    view.op = "handleUpload" =>
        /\ view.incomeFile.selected =>
              \A i \in 1..Len(incomeData) :
                  DateFieldsOf(incomeData[i], view.incomeFile.rows[i])
        /\ view.expenseFile.selected =>
              \A i \in 1..Len(expenseData) :
                  DateFieldsOf(expenseData[i], view.expenseFile.rows[i])

\* west of Greenwich a row dated 2023-02-01 became a record of January, and
\* a row whose date is no date became a record of the current instant
C20_Witness ==
    /\ view.op = "handleUpload" /\ tz < 0
    /\ Len(incomeData) = 2
    /\ view.incomeFile.rows[1].Date = Cell(IsoText(2023, 2, 1))
    /\ incomeData[1].month = 0 /\ incomeData[1].year = 2023
    /\ view.incomeFile.rows[2].Date = Cell(TextGarbage)
    /\ incomeData[2].Date = now /\ incomeData[2].month = 5 /\ incomeData[2].year = 2024

\* C21: when an upload has completed, the collection of each file it
\* supplied is the normalisation of that file's rows and nothing else, and
\* the collection of a file it did not supply is what it was before.
C21_UploadReplacesWholesale ==
    upload.outcome = "done" =>
        /\ incomeData =
              IF upload.incomeFile.selected
              THEN [i \in 1..Len(upload.incomeFile.rows) |-> IncomeRecord(upload.incomeFile.rows[i])]
              ELSE upload.seen.income
        /\ expenseData =
              IF upload.expenseFile.selected
              THEN [i \in 1..Len(upload.expenseFile.rows) |-> ExpenseRecord(upload.expenseFile.rows[i])]
              ELSE upload.seen.expense

\* an upload of an income file of two rows alone has completed
C21_Witness ==
    /\ upload.outcome = "done"
    /\ upload.incomeFile.selected /\ ~upload.expenseFile.selected
    /\ Len(upload.incomeFile.rows) = 2 /\ Len(incomeData) = 2
    /\ incomeData[1].Amount # incomeData[2].Amount
    /\ expenseData = upload.seen.expense

\* C22: no aggregation and no view builder changes the collections it is
\* given: whatever is called, and in whatever order, the collections hold
\* the same records in the same order afterwards; only an upload changes
\* them.
C22_AggregationsKeepInputs ==
    [][view'.op # "handleUpload" =>
          /\ incomeData' = incomeData
          /\ expenseData' = expenseData]_vars

\* the notable transactions were taken from two incomes held smallest
\* first: the result has the largest first and the collection has not
C22_Witness ==
    /\ view.op = "getNotableTransactions" /\ view.limit = 2
    /\ Len(incomeData) = 2
    /\ incomeData[1].Amount < incomeData[2].Amount
    /\ view.result.topIncome = <<incomeData[2], incomeData[1]>>

\* the keys of a map
KeysOf(obj) == {obj[i].k : i \in 1..Len(obj)}

\* C23: the keys of the map a grouping reducer returns are exactly the keys
\* its records map to, and on empty collections every reducer and view
\* builder returns an empty map, an empty list or 0.
C23_GroupingKeys ==
    /\ view.op = "groupExpensesByCategory" =>
           KeysOf(view.result) = {CategoryKey(expenseData[i]) : i \in 1..Len(expenseData)}
    /\ view.op = "groupIncomeBySource" =>
           KeysOf(view.result) = {SourceKey(incomeData[i]) : i \in 1..Len(incomeData)}
    /\ view.op = "groupByMonth" =>
           KeysOf(view.result) = {MonthKey(view.data[i]) : i \in 1..Len(view.data)}
    /\ view.op = "groupByDate" =>
           KeysOf(view.result) = {DateKey(view.data[i]) : i \in 1..Len(view.data)}
    /\ (incomeData = <<>> /\ expenseData = <<>>) =>
           /\ view.op \in {"groupExpensesByCategory", "groupIncomeBySource", "groupByMonth",
                            "groupByDate", "getTopSpendingCategories", "getCashFlowData",
                            "getYearlySummary", "getDailySpendingData"}
                  => view.result = <<>>
           /\ view.op = "calculateTotals" => view.totalIncome = 0 /\ view.totalExpenses = 0

\* a cell that is absent, empty or made of white space only
IsBlank(cell) == cell.absent \/ Trim(cell.s) = <<>>

\* the text of a cell, the empty text when there is no cell
TextOrEmpty(cell) == IF cell.absent THEN <<>> ELSE cell.s

\* C24: the Name of a record is "Unknown" when the raw Name is blank
\* (absent, empty or white space only) and the raw Name otherwise; Notes
\* and Expenses are the raw text as it is, the empty text when absent.
C24_NameAndNotesDefaults ==
    view.op = "handleUpload" =>
        /\ view.incomeFile.selected =>
              \A i \in 1..Len(incomeData) :
                  incomeData[i].Name = IF IsBlank(view.incomeFile.rows[i].Name) THEN Unknown
                                       ELSE view.incomeFile.rows[i].Name.s
        /\ view.expenseFile.selected =>
              \A i \in 1..Len(expenseData) :
                  /\ expenseData[i].Name = IF IsBlank(view.expenseFile.rows[i].Name) THEN Unknown
                                           ELSE view.expenseFile.rows[i].Name.s
                  /\ expenseData[i].Notes = TextOrEmpty(view.expenseFile.rows[i].Notes)
                  /\ expenseData[i].Expenses = TextOrEmpty(view.expenseFile.rows[i].Expenses)

\* the collections restricted by the filters the dashboard shows
ShownExpenses(d) ==
    LET Kept(item) ==
            /\ d.selectedYear = TextAll \/ NumberToString(item.year) = d.selectedYear
            /\ d.selectedMonth = TextAll \/ NumberToString(item.month) = d.selectedMonth
            /\ d.selectedCategory.absent \/ item.Categories = d.selectedCategory.s
            /\ \E text \in {item.Name, item.Categories, item.Notes} :
                   ContainsIgnoringCase(text, d.searchQuery)
    IN  SelectSeq(expenseData, Kept)

ShownIncomes(d) ==
    LET Kept(item) ==
            /\ d.selectedYear = TextAll \/ NumberToString(item.year) = d.selectedYear
            /\ d.selectedMonth = TextAll \/ NumberToString(item.month) = d.selectedMonth
            /\ \E text \in {item.Name, item.Sources} :
                   ContainsIgnoringCase(text, d.searchQuery)
    IN  SelectSeq(incomeData, Kept)

\* C25: whatever was selected, typed, clicked, cleared and reset before,
\* filteredExpenses is expenseData restricted by the year, month, category
\* and query now shown, and filteredIncomes (where it is kept) is
\* incomeData restricted by the year, month and query now shown.
C25_FiltersShownAreApplied ==
    view.op = "FinanceDashboard" =>
        /\ view.filteredExpenses = ShownExpenses(view)
        /\ view.version = 2 => view.filteredIncomes = ShownIncomes(view)

\* C26: in the version that keeps filteredIncomes, when Reset Filters has
\* put every filter back (no category, no query, all years, all months),
\* filteredExpenses is the whole expenseData and filteredIncomes the whole
\* incomeData.
C26_ResetShowsEverything ==
    [][(/\ view.op = "FinanceDashboard" /\ view.version = 2
        /\ view' = resetFilters(view, incomeData, expenseData))
       => (view'.filteredExpenses = expenseData /\ view'.filteredIncomes = incomeData)]_vars

\* C27: once the dashboard is mounted and the effects of its last render
\* have run, filteredExpenses, no filter being active, is the expenseData
\* it is handed, also when that collection arrived after the mount.
C27_FilteredExpensesFollowProps ==
    (/\ view.op = "FinanceDashboard"
     /\ view.version = 2 => view.deps = [income |-> incomeData, expense |-> expenseData]
     /\ view.selectedCategory.absent /\ view.searchQuery = <<>>
     /\ view.selectedYear = TextAll /\ view.selectedMonth = TextAll)
    => view.filteredExpenses = expenseData

\* C28: in TransactionTable the current page always lies between 1 and
\* max(1, totalPages), so the shown page is empty only when no transaction
\* matches the search and the type filter
C28_CurrentPageInRange ==
    view.op = "TransactionTable" =>
        LET matching == Len(filteredTransactions(view))
            pages == (matching + itemsPerPage - 1) \div itemsPerPage
        IN  /\ 1 <= view.currentPage
            /\ view.currentPage <= (IF pages < 1 THEN 1 ELSE pages)
            /\ (paginatedTransactions(view) = <<>> => matching = 0)

\* C29: every expense is reported by groupByDate, getDailySpendingData and
\* DailySpendingCalendar under the day, month and year of its own local
\* calendar fields, in every time zone: the day buckets are those local days,
\* each holding the amounts of its records, and the year and month of a day
\* bucket are those of the month bucket of its records
LocalDayOf(item) == [y |-> item.year, m |-> item.month + 1, d |-> getDate(item.Date)]

DayOfKey(key) == [y |-> DigitsToNat(SubSeq(key, 1, 4)), m |-> DigitsToNat(SubSeq(key, 6, 7)),
                  d |-> DigitsToNat(SubSeq(key, 9, 10))]

RecordsOfDay(data, day) == SelectSeq(data, LAMBDA item : LocalDayOf(item) = day)

C29_DayBucketsAreLocalDays ==
    /\ view.op = "groupByDate" =>
          /\ {DayOfKey(view.result[i].k) : i \in 1..Len(view.result)}
                 = {LocalDayOf(view.data[i]) : i \in 1..Len(view.data)}
          /\ \A i \in 1..Len(view.result) :
                 /\ view.result[i].v
                        = SumAmounts(RecordsOfDay(view.data, DayOfKey(view.result[i].k)))
                 /\ \A item \in {view.data[j] : j \in 1..Len(view.data)} :
                        LocalDayOf(item) = DayOfKey(view.result[i].k) =>
                            MonthKey(item) = NumberToString(DayOfKey(view.result[i].k).y)
                                \o <<"-">> \o NumberToString(DayOfKey(view.result[i].k).m)
    /\ view.op = "getDailySpendingData" =>
          \A i \in 1..Len(view.result) :
              \E j \in 1..Len(view.data) :
                  LocalCivil(view.result[i].date) = LocalDayOf(view.data[j])
    /\ view.op = "DailySpendingCalendar" =>
          \A i \in 1..Len(view.spendingMap) :
              view.spendingMap[i].v
                  = SumAmounts(RecordsOfDay(view.data, DayOfKey(view.spendingMap[i].k)))

\* C30: every upload that has started ends with isUploading = FALSE, whether
\* the parsing succeeds or fails for either file; an upload starts only
\* while isUploading is FALSE and a file is selected, so a run in flight is
\* never replaced by another one
UploadStarts ==
    /\ upload' # upload
    /\ upload'.isUploading /\ upload'.delivered = {}

C30_UploadEnds ==
    /\ upload.isUploading ~> ~upload.isUploading
    /\ [][UploadStarts =>
              /\ ~upload.isUploading
              /\ upload'.incomeFile.selected \/ upload'.expenseFile.selected]_vars
    /\ [](upload.isUploading <=> upload.pc \in {"parseIncome", "parseExpense"})

\* an upload of two files has ended after the income file was delivered and
\* the expense file failed to parse
C30_Witness ==
    /\ ~upload.isUploading /\ upload.outcome = "failed"
    /\ upload.incomeFile.selected /\ upload.expenseFile.selected
    /\ upload.delivered = {"income"}

====
